---------------------------- MODULE Spec2Model ----------------------------
(***************************************************************************)
(* Model of the energy-report exercises (Task D, Task E, Task F): the      *)
(* timestamp parsers, the column detector, the tabular readers, the daily  *)
(* aggregator and the main programs.                                       *)
(*                                                                         *)
(* Quantities are whole watt-hours.  Python floats are modelled by their   *)
(* rounding rule: every addition rounds the exact sum to Precision         *)
(* significant bits, ties to even (binary64 has 53; the model scales the   *)
(* significand down so that rounding is reachable with small numbers).     *)
(***************************************************************************)
EXTENDS Integers, Sequences, FiniteSets, TLC

VARIABLES
    task,                \* which script runs: "D", "E" or "F"
    pc,                  \* position in the running function
    hour_rows,           \* List[HourRow] / List[Row]: the hourly records
    summaries,           \* aggregator output (E: List[DaySummary], D: OrderedDict items)
    shuffled,            \* the same records in another order
    shuffled_summaries,  \* aggregator output for the shuffled records
    text,                \* the text handed to a timestamp parser
    parsed,              \* what the timestamp parser returned or raised
    fieldnames,          \* the header labels handed to the column detector
    detected,            \* what the column detector returned or raised
    respelled,           \* the same header labels, one of them spelled differently
    respelled_detected,  \* what the column detector made of the respelled labels
    file,                \* the input file being read
    rd,                  \* read_data's frame: its position, locals and error
    inputs,              \* what is found at the paths main opens
    mn,                  \* main's frame: its position, locals and error
    report,              \* what has been written to summary.txt (E) or printed (D)
    field,               \* the text of a numeric field handed to a normalizer
    number,              \* what the normalizer returned or raised
    sample,              \* how often each candidate delimiter occurs in the sample
    sniffed,             \* what csv.Sniffer().sniff did with the sample
    delimiter,           \* the delimiter read_data reads the file with
    quantity,            \* the quantity handed to a number formatter
    rendered,            \* the characters a formatter returned
    report_txt,          \* Task F: the lines in report.txt, NoReport before it is written
    choice,              \* Task F: the last choice typed at a menu
    reservations_txt,    \* Tasks C and G: the lines of reservations.txt
    running,             \* Tasks C and G: which of the three programs is being run
    programs             \* Tasks C and G: main's frame of each program: position, reservations, output

aggVars == <<hour_rows, summaries, shuffled, shuffled_summaries>>
tsVars == <<text, parsed>>
detectVars == <<fieldnames, detected, respelled, respelled_detected>>
readVars == <<file, rd>>

mainVars == <<inputs, mn, report>>

numVars == <<field, number>>

sniffVars == <<sample, sniffed, delimiter>>

fmtVars == <<quantity, rendered>>

menuVars == <<report_txt, choice>>

resVars == <<reservations_txt, running, programs>>

vars == <<task, pc, aggVars, tsVars, detectVars, readVars, mainVars, numVars, sniffVars, fmtVars, menuVars, resVars>>

----------------------------------------------------------------------------
(* Bounds *)

MaxRows == 3
MaxLines == 3
MaxCount == 2
Precision == 2

----------------------------------------------------------------------------
(* Sequences *)

SeqsUpTo(S, n) == UNION { [1..k -> S] : k \in 0..n }

Permutation(s, p) == [k \in 1..Len(s) |-> s[p[k]]]

Bijections(n) == { p \in [1..n -> 1..n] : \A a, b \in 1..n : p[a] = p[b] => a = b }

----------------------------------------------------------------------------
(* Python float arithmetic on non-negative whole numbers *)

RECURSIVE Pow2(_)
Pow2(n) == IF n = 0 THEN 1 ELSE 2 * Pow2(n - 1)

RECURSIVE BitLen(_)
BitLen(n) == IF n = 0 THEN 0 ELSE 1 + BitLen(n \div 2)

\* Round n to Precision significant bits, round-half-to-even.
RoundToPrecision(n) ==
    LET e == BitLen(n) - Precision
    IN  IF e <= 0 THEN n
        ELSE LET u == Pow2(e)
                 q == n \div u
                 r == n % u
                 up == (2 * r > u) \/ (2 * r = u /\ q % 2 = 1)
             IN  (IF up THEN q + 1 ELSE q) * u

\* a + b on floats: the exact sum, rounded.
float_add(a, b) == RoundToPrecision(a + b)

\* v / 1000.0 as an exact decimal: whole kWh and thousandths.
kwh_from_wh(v) == [whole |-> v \div 1000, milli |-> v % 1000]

----------------------------------------------------------------------------
(* Dates and date-times *)

Date(y, m, d) == [year |-> y, month |-> m, day |-> d]

\* date.__lt__
DateLess(a, b) ==
    \/ a.year < b.year
    \/ a.year = b.year /\ a.month < b.month
    \/ a.year = b.year /\ a.month = b.month /\ a.day < b.day

\* A datetime: wall-clock date and hour, and the zone offset (hours) if aware.
DateTime(d, h, aw, off) == [date |-> d, hour |-> h, aware |-> aw, utcoff |-> off]

Naive(d, h) == DateTime(d, h, FALSE, 0)

\* Mutant of DateOf: the date after conversion to UTC.
DateOfUtc(ts) ==
    LET h == ts.hour - ts.utcoff
    IN  IF ~ts.aware THEN ts.date
        ELSE IF h < 0 THEN [ts.date EXCEPT !.day = @ - 1]
        ELSE IF h > 23 THEN [ts.date EXCEPT !.day = @ + 1]
        ELSE ts.date

\* datetime.date(): the wall-clock date; tzinfo plays no part.
DateOf(ts) == ts.date

Dates == { Date(2025, 9, 30), Date(2025, 10, 13), Date(2025, 10, 14) }

Timestamps ==
    { Naive(Date(2025, 9, 30), 12),
      DateTime(Date(2025, 10, 13), 0, TRUE, 2),
      Naive(Date(2025, 10, 13), 23),
      DateTime(Date(2025, 10, 14), 23, TRUE, -5) }

----------------------------------------------------------------------------
(* Text cells.  A cell's text is described by its written form and by what   *)
(* it spells: the forms are the timestamp layouts the parsers are tried on,  *)
(* and texts that are no timestamp at all.                                   *)
(*   iso_T       2025-10-13T23:00:00   (zone: "", "Z", "+02:00", "-05:00")   *)
(*   space_sec   2025-10-13 23:00:00   (zone likewise)                       *)
(*   space_min   2025-10-13 23:00                                            *)
(*   slash_min   2025/10/13 23:00                                            *)
(*   dotted_sec  13.10.2025 23:00:00                                         *)
(*   date_only   2025-10-13                                                  *)
(*   dotted_date 13.10.2025                                                  *)
(*   date_junk   2025-10-13junk                                              *)
(*   garbage     Time, abc, ...                                              *)
(*   empty       the empty text                                              *)
(*   int         digits only: a whole number (value)                         *)
(*   decimal     19.95 or 19,95: whole part (value), separator (sep) and     *)
(*               two fraction digits (cents)                                 *)
(*   none        no text at all (None)                                       *)
(*   time_min    09:00            (hour)                                     *)
(*   time_sec    09:00:00         (hour)                                     *)
(*   word        a name or another text without meaning to the program       *)
(*   True, False, reservationId   these very texts                           *)
(* padded: the text has surrounding white space.                             *)

Text(f, d, h, z, pad) ==
    [form |-> f, date |-> d, hour |-> h, zone |-> z, padded |-> pad, value |-> 0,
     sep |-> "", cents |-> 0]

NoDate == Date(0, 0, 0)

NoText == Text("none", NoDate, 0, "", FALSE)

Number(v) == [Text("int", NoDate, 0, "", FALSE) EXCEPT !.value = v]

Decimal(v, sep, c, pad) ==
    [Text("decimal", NoDate, 0, "", pad) EXCEPT !.value = v, !.sep = sep, !.cents = c]

Garbage == Text("garbage", NoDate, 0, "", FALSE)

Empty == Text("empty", NoDate, 0, "", FALSE)

Spaces == Text("empty", NoDate, 0, "", TRUE)

Zones == {"", "Z", "+02:00", "-05:00"}

ZoneHours(z) == CASE z = "+02:00" -> 2 [] z = "-05:00" -> -5 [] OTHER -> 0

TimestampTexts ==
    { Text(f, d, h, z, pad) :
        f \in {"iso_T", "space_sec"}, d \in Dates, h \in {0, 23}, z \in Zones, pad \in BOOLEAN }
    \cup
    { Text(f, d, h, "", FALSE) :
        f \in {"space_min", "slash_min", "dotted_sec"}, d \in Dates, h \in {0, 23} }
    \cup
    { Text(f, d, 0, "", pad) : f \in {"date_only", "date_junk"}, d \in Dates, pad \in BOOLEAN }
    \cup
    { Text(f, NoDate, 0, "", pad) : f \in {"garbage", "empty"}, pad \in BOOLEAN }

\* str.strip()
Strip(t) == [t EXCEPT !.padded = FALSE]

\* str.replace("Z", "") on a timestamp text: the zone designator Z goes.
RemoveZ(t) == IF t.zone = "Z" THEN [t EXCEPT !.zone = ""] ELSE t

\* s[:10]: the first ten characters.
Prefix10(t) ==
    IF t.form \in {"iso_T", "space_sec", "space_min", "date_only", "date_junk"} /\ ~t.padded
    THEN Text("date_only", t.date, 0, "", FALSE)
    ELSE IF t.form = "empty" /\ ~t.padded THEN t
    ELSE Garbage

NoDateTime == Naive(NoDate, 0)

Returned(dt) == [ok |-> TRUE, value |-> dt, unrecognized |-> NoText]

\* raise ValueError(f"Unrecognized timestamp format: {s!r}")
Unrecognized(t) == [ok |-> FALSE, value |-> NoDateTime, unrecognized |-> t]

NotParsed == [ok |-> FALSE, value |-> NoDateTime, unrecognized |-> NoText]

\* datetime.fromisoformat (Python 3.11): date, optional time after any one
\* separator character, optional zone; nothing else.
fromisoformat(t) ==
    IF t.form \in {"iso_T", "space_sec", "space_min", "date_only"} /\ ~t.padded
    THEN Returned(DateTime(t.date, t.hour, t.zone # "", ZoneHours(t.zone)))
    ELSE Unrecognized(t)

\* The form a strptime format matches.
FormOf(fmt) ==
    CASE fmt = "%Y-%m-%d %H:%M:%S" -> "space_sec"
      [] fmt = "%Y-%m-%d %H:%M" -> "space_min"
      [] fmt = "%Y-%m-%d" -> "date_only"
      [] fmt = "%Y/%m/%d %H:%M" -> "slash_min"
      [] fmt = "%d.%m.%Y %H:%M:%S" -> "dotted_sec"
      [] fmt = "%d.%m.%Y" -> "dotted_date"
      [] fmt = "%H:%M" -> "time_min"
      [] fmt = "%H:%M:%S" -> "time_sec"

\* datetime.strptime(t, fmt): the whole text must match the format.
strptime(t, fmt) ==
    IF t.form = FormOf(fmt) /\ t.zone = "" /\ ~t.padded
    THEN Returned(Naive(t.date, t.hour))
    ELSE Unrecognized(t)

\* The fallback loop: the first format that parses wins.
RECURSIVE TryFormats(_, _, _)
TryFormats(t, fmts, orig) ==
    IF fmts = << >> THEN Unrecognized(orig)
    ELSE LET r == strptime(t, Head(fmts))
         IN  IF r.ok THEN r ELSE TryFormats(t, Tail(fmts), orig)

\* Task E parse_timestamp
parse_timestamp_E(s) ==
    LET txt == Strip(s)
        iso == fromisoformat(txt)
    IN  IF iso.ok THEN iso
        ELSE TryFormats(txt, <<"%Y-%m-%d %H:%M:%S", "%Y-%m-%d %H:%M", "%Y-%m-%d">>, s)

\* Task D parse_timestamp
parse_timestamp_D(txt) ==
    LET s == RemoveZ(Strip(txt))
        iso == fromisoformat(s)
    IN  IF iso.ok THEN iso
        ELSE TryFormats(s, <<"%Y-%m-%d %H:%M:%S", "%Y/%m/%d %H:%M", "%d.%m.%Y %H:%M:%S">>, txt)

\* Task F _parse_timestamp
parse_timestamp_F(txt) ==
    LET s == Strip(txt)
        iso == fromisoformat(s)
        d == strptime(Prefix10(s), "%Y-%m-%d")
    IN  IF iso.ok THEN iso
        ELSE IF d.ok THEN Returned(Naive(d.value.date, 0))
        ELSE Returned(Naive(Date(1970, 1, 1), 0))

----------------------------------------------------------------------------
(* Header labels, character by character *)

L_Time == <<"T", "i", "m", "e">>  \* "Time"
L_Cons1 == <<"C", "o", "n", "s", "u", "m", "p", "t", "i", "o", "n", " ", "p", "h", "a", "s", "e", " ", "1", " ", "W", "h">>  \* "Consumption phase 1 Wh"
L_Cons2 == <<"C", "o", "n", "s", "u", "m", "p", "t", "i", "o", "n", " ", "p", "h", "a", "s", "e", " ", "2", " ", "W", "h">>  \* "Consumption phase 2 Wh"
L_Cons3 == <<"C", "o", "n", "s", "u", "m", "p", "t", "i", "o", "n", " ", "p", "h", "a", "s", "e", " ", "3", " ", "W", "h">>  \* "Consumption phase 3 Wh"
L_Prod1 == <<"P", "r", "o", "d", "u", "c", "t", "i", "o", "n", " ", "p", "h", "a", "s", "e", " ", "1", " ", "W", "h">>  \* "Production phase 1 Wh"
L_Prod2 == <<"P", "r", "o", "d", "u", "c", "t", "i", "o", "n", " ", "p", "h", "a", "s", "e", " ", "2", " ", "W", "h">>  \* "Production phase 2 Wh"
L_Prod3 == <<"P", "r", "o", "d", "u", "c", "t", "i", "o", "n", " ", "p", "h", "a", "s", "e", " ", "3", " ", "W", "h">>  \* "Production phase 3 Wh"
L_Timestamp == <<"T", "i", "m", "e", "s", "t", "a", "m", "p">>  \* "Timestamp"
L_Aika == <<"A", "i", "k", "a">>  \* "Aika"
L_ConsumptionPhase1 == <<"C", "o", "n", "s", "u", "m", "p", "t", "i", "o", "n", "P", "h", "a", "s", "e", "1">>  \* "ConsumptionPhase1"
L_Kulutus2 == <<"K", "u", "l", "u", "t", "u", "s", " ", "v", "2", " ", "[", "W", "h", "]">>  \* "Kulutus v2 [Wh]"
L_Cons1of2 == <<"C", "o", "n", "s", "u", "m", "p", "t", "i", "o", "n", " ", "1", " ", "o", "f", " ", "2">>  \* "Consumption 1 of 2"
L_Prod3L1 == <<"P", "r", "o", "d", "u", "c", "t", "i", "o", "n", " ", "3", " ", "(", "L", "1", ")">>  \* "Production 3 (L1)"
L_Power1 == <<"P", "o", "w", "e", "r", " ", "1">>  \* "Power 1"
L_Cons4 == <<"C", "o", "n", "s", "u", "m", "p", "t", "i", "o", "n", " ", "p", "h", "a", "s", "e", " ", "4", " ", "W", "h">>  \* "Consumption phase 4 Wh"
L_ConsProd1 == <<"C", "o", "n", "s", "/", "P", "r", "o", "d", " ", "1">>  \* "Cons/Prod 1"
L_NetConsumption == <<"C", "o", "n", "s", "u", "m", "p", "t", "i", "o", "n", " ", "(", "n", "e", "t", ")", " ", "k", "W", "h">>  \* "Consumption (net) kWh"
L_NetProduction == <<"P", "r", "o", "d", "u", "c", "t", "i", "o", "n", " ", "(", "n", "e", "t", ")", " ", "k", "W", "h">>  \* "Production (net) kWh"
L_Temperature == <<"D", "a", "i", "l", "y", " ", "a", "v", "e", "r", "a", "g", "e", " ", "t", "e", "m", "p", "e", "r", "a", "t", "u", "r", "e">>  \* "Daily average temperature"
L_TimeUpper == <<" ", "T", "I", "M", "E">>  \* " TIME"

K_timestamp == <<"t", "i", "m", "e", "s", "t", "a", "m", "p">>
K_datetime == <<"d", "a", "t", "e", "t", "i", "m", "e">>
K_time == <<"t", "i", "m", "e">>
K_date == <<"d", "a", "t", "e">>
K_consumption == <<"c", "o", "n", "s", "u", "m", "p", "t", "i", "o", "n">>
K_cons == <<"c", "o", "n", "s">>
K_kulutus == <<"k", "u", "l", "u", "t", "u", "s">>
K_production == <<"p", "r", "o", "d", "u", "c", "t", "i", "o", "n">>
K_prod == <<"p", "r", "o", "d">>
K_tuotanto == <<"t", "u", "o", "t", "a", "n", "t", "o">>

\* The keys Task F read_data looks up
K_consumption_net_kwh ==
    <<"c", "o", "n", "s", "u", "m", "p", "t", "i", "o", "n", " ", "(", "n", "e", "t", ")", " ", "k", "w", "h">>
K_production_net_kwh ==
    <<"p", "r", "o", "d", "u", "c", "t", "i", "o", "n", " ", "(", "n", "e", "t", ")", " ", "k", "w", "h">>
K_daily_average_temperature ==
    <<"d", "a", "i", "l", "y", " ", "a", "v", "e", "r", "a", "g", "e", " ", "t", "e", "m", "p", "e", "r", "a", "t", "u", "r", "e">>

UpperCase == <<"A", "B", "C", "D", "E", "F", "G", "H", "I", "J", "K", "L", "M",
               "N", "O", "P", "Q", "R", "S", "T", "U", "V", "W", "X", "Y", "Z">>

LowerCase == <<"a", "b", "c", "d", "e", "f", "g", "h", "i", "j", "k", "l", "m",
               "n", "o", "p", "q", "r", "s", "t", "u", "v", "w", "x", "y", "z">>

\* str.lower(), one character
LowerChar(c) ==
    IF \E n \in 1..Len(UpperCase) : UpperCase[n] = c
    THEN LowerCase[CHOOSE n \in 1..Len(UpperCase) : UpperCase[n] = c]
    ELSE c

Lower(h) == [n \in 1..Len(h) |-> LowerChar(h[n])]

WhiteSpace == {" ", "\t"}

\* str.strip()
RECURSIVE StripLeft(_)
StripLeft(h) == IF h # << >> /\ Head(h) \in WhiteSpace THEN StripLeft(Tail(h)) ELSE h

RECURSIVE StripRight(_)
StripRight(h) ==
    IF h # << >> /\ h[Len(h)] \in WhiteSpace THEN StripRight(SubSeq(h, 1, Len(h) - 1)) ELSE h

StripLabel(h) == StripRight(StripLeft(h))

\* re.sub(r"[\s\-\[\]\(\)_]", "", x)
RemovedChars == WhiteSpace \cup {"-", "[", "]", "(", ")", "_"}

RECURSIVE RemovePunctuation(_)
RemovePunctuation(x) ==
    IF x = << >> THEN << >>
    ELSE IF Head(x) \in RemovedChars THEN RemovePunctuation(Tail(x))
    ELSE <<Head(x)>> \o RemovePunctuation(Tail(x))

\* x.replace("wh", ""): occurrences are removed left to right, without rescanning.
RECURSIVE RemoveWh(_)
RemoveWh(x) ==
    IF Len(x) < 2 THEN x
    ELSE IF x[1] = "w" /\ x[2] = "h" THEN RemoveWh(SubSeq(x, 3, Len(x)))
    ELSE <<Head(x)>> \o RemoveWh(Tail(x))

\* A normalisation that lower-cases and strips only: whitespace and
\* punctuation inside the label stay.
normalize_header_keep_punctuation(h) == RemoveWh(Lower(StripLabel(h)))

\* _normalize_header
normalize_header(h) == RemoveWh(RemovePunctuation(Lower(StripLabel(h))))

\* sub in x
Contains(x, sub) ==
    \E n \in 0..(Len(x) - Len(sub)) : SubSeq(x, n + 1, n + Len(sub)) = sub

PhaseDigits == {"1", "2", "3"}

\* int(c) for a digit 1, 2 or 3
DigitValue(c) == CASE c = "1" -> 1 [] c = "2" -> 2 [] c = "3" -> 3

\* re.compile(r".*([123]).*").match(nf), then int(m.group(1)); 0 when there is
\* no match.  The first .* is greedy: the group is the rightmost digit 1-3.
phase_match(nf) ==
    LET at == { n \in 1..Len(nf) : nf[n] \in PhaseDigits }
    IN  IF at = {} THEN 0
        ELSE DigitValue(nf[CHOOSE n \in at : \A o \in at : n >= o])

IsTimestampHeader(nf) ==
    Contains(nf, K_timestamp) \/ Contains(nf, K_datetime) \/ nf = K_time \/ nf = K_date

IsConsumptionHeader(nf) ==
    Contains(nf, K_consumption) \/ Contains(nf, K_cons) \/ Contains(nf, K_kulutus)

IsProductionHeader(nf) ==
    Contains(nf, K_production) \/ Contains(nf, K_prod) \/ Contains(nf, K_tuotanto)

\* The keys of the dictionary `normalized`: the labels in order, each once.
RECURSIVE DictKeys(_)
DictKeys(fns) ==
    IF fns = << >> THEN << >>
    ELSE LET rest == DictKeys(SubSeq(fns, 1, Len(fns) - 1))
             last == fns[Len(fns)]
         IN  IF \E n \in 1..Len(rest) : rest[n] = last THEN rest ELSE Append(rest, last)

NoCols == [p \in {} |-> << >>]

\* cols[p] = fn, unless p is already a key
SetDefault(cols, p, fn) ==
    IF p \in DOMAIN cols THEN cols
    ELSE [q \in (DOMAIN cols) \cup {p} |-> IF q = p THEN fn ELSE cols[q]]

\* The loop over normalized.items(): <<cons_cols, prod_cols>> after the first n keys.
RECURSIVE PhaseColumns(_, _)
PhaseColumns(keys, n) ==
    IF n = 0 THEN <<NoCols, NoCols>>
    ELSE LET before == PhaseColumns(keys, n - 1)
             fn == keys[n]
             nf == normalize_header(fn)
             p == phase_match(nf)
             cons == IF IsConsumptionHeader(nf) /\ p # 0
                     THEN SetDefault(before[1], p, fn) ELSE before[1]
             prod == IF IsProductionHeader(nf) /\ p # 0
                     THEN SetDefault(before[2], p, fn) ELSE before[2]
         IN  <<cons, prod>>

Missing(cols) == { p \in 1..3 : p \notin DOMAIN cols }

NoLabel == << >>

DetectError(what, mc, mp) ==
    [ok |-> FALSE, error |-> what, timestamp_col |-> NoLabel,
     cons_cols |-> NoCols, prod_cols |-> NoCols, missing_cons |-> mc, missing_prod |-> mp]

NotDetected == DetectError("not run", {}, {})

\* Mutant of detect_columns: the completeness check of the phase columns is left out.
detect_columns_unchecked(fns) ==
    LET keys == DictKeys(fns)
        ts == { n \in 1..Len(keys) : IsTimestampHeader(normalize_header(keys[n])) }
        cols == PhaseColumns(keys, Len(keys))
    IN  IF fns = << >> THEN DetectError("no header row", {}, {})
        ELSE IF ts = {} THEN DetectError("no timestamp column", {}, {})
        ELSE [ok |-> TRUE, error |-> "", timestamp_col |-> keys[CHOOSE n \in ts : \A o \in ts : n <= o],
              cons_cols |-> cols[1], prod_cols |-> cols[2], missing_cons |-> {}, missing_prod |-> {}]

\* _detect_columns
detect_columns(fns) ==
    LET keys == DictKeys(fns)
        ts == { n \in 1..Len(keys) : IsTimestampHeader(normalize_header(keys[n])) }
        cols == PhaseColumns(keys, Len(keys))
    IN  IF fns = << >> THEN DetectError("no header row", {}, {})
        ELSE IF ts = {} THEN DetectError("no timestamp column", {}, {})
        ELSE IF Missing(cols[1]) # {} \/ Missing(cols[2]) # {}
        THEN DetectError("missing phase columns", Missing(cols[1]), Missing(cols[2]))
        ELSE [ok |-> TRUE, error |-> "", timestamp_col |-> keys[CHOOSE n \in ts : \A o \in ts : n <= o],
              cons_cols |-> cols[1], prod_cols |-> cols[2], missing_cons |-> {}, missing_prod |-> {}]

\* The header of the course's files, and other spellings seen in one place of it.
GoodHeader == <<L_Time, L_Cons1, L_Cons2, L_Cons3, L_Prod1, L_Prod2, L_Prod3>>

OtherLabels ==
    { L_Timestamp, L_Aika, L_ConsumptionPhase1, L_Kulutus2, L_Cons1of2, L_Prod3L1,
      L_Power1, L_Cons4, L_Cons1, L_Prod2, L_ConsProd1 }

HeaderRows ==
    { << >>, GoodHeader }
    \cup { [GoodHeader EXCEPT ![n] = h] : n \in 1..Len(GoodHeader), h \in OtherLabels }
    \cup { [[GoodHeader EXCEPT ![n] = h] EXCEPT ![o] = g] :
              n \in 1..Len(GoodHeader), o \in 1..Len(GoodHeader),
              h \in OtherLabels, g \in OtherLabels }


\* Other spellings of a label: one letter in the other case, one character of
\* whitespace or punctuation more or less, one unit "wh" more or less.
UpperChar(c) ==
    IF \E n \in 1..Len(LowerCase) : LowerCase[n] = c
    THEN UpperCase[CHOOSE n \in 1..Len(LowerCase) : LowerCase[n] = c]
    ELSE c

OtherCase(c) == IF LowerChar(c) # c THEN LowerChar(c) ELSE UpperChar(c)

Insert(h, n, x) == SubSeq(h, 1, n) \o x \o SubSeq(h, n + 1, Len(h))

Delete(h, n, k) == SubSeq(h, 1, n - 1) \o SubSeq(h, n + k, Len(h))

UnitSpellings == { <<"w", "h">>, <<"W", "h">>, <<"W", "H">> }

Respellings(h) ==
    { [h EXCEPT ![n] = OtherCase(h[n])] : n \in 1..Len(h) }
    \cup { Insert(h, n, <<c>>) : n \in 0..Len(h), c \in RemovedChars }
    \cup { Delete(h, n, 1) : n \in { o \in 1..Len(h) : h[o] \in RemovedChars } }
    \cup { Insert(h, n, u) : n \in 0..Len(h), u \in UnitSpellings }
    \cup { Delete(h, n, 2) : n \in { o \in 1..(Len(h) - 1) : SubSeq(h, o, o + 1) \in UnitSpellings } }
    \cup (IF h = L_Cons1 THEN {L_ConsumptionPhase1} ELSE {})

Respelled(fns, n, h) == [at |-> n, fieldnames |-> [fns EXCEPT ![n] = h]]

NotRespelled == [at |-> 0, fieldnames |-> << >>]

\* Header rows in which every column is detected
RespellHeaders ==
    { GoodHeader,
      [GoodHeader EXCEPT ![1] = L_Timestamp],
      [GoodHeader EXCEPT ![3] = L_Kulutus2],
      [GoodHeader EXCEPT ![7] = L_Prod3L1] }

----------------------------------------------------------------------------
(* Tabular Reader.  A file is its header line (Task E) and the lines after   *)
(* it; a line is the list of its cells, empty for a blank line.              *)

HourRow(ts, c, p) == [timestamp |-> ts, cons_wh |-> c, prod_wh |-> p]

Line(cells) == [cells |-> cells]

BlankLine == Line(<< >>)

\* Task E: has_header is FALSE for an empty file; fieldnames is the first line.
\* Task D reads every line alike and has no header of its own: has_header is
\* FALSE, and a header is a body line whose first cell is no timestamp.
File(hh, fns, body) == [has_header |-> hh, fieldnames |-> fns, body |-> body]

\* A float a numeric field was read to: its whole part and its hundredths.
\* The arithmetic of the aggregators is modelled on whole numbers (cents = 0).
Float(v, c) == [ok |-> TRUE, value |-> v, cents |-> c]

NotFloat == [ok |-> FALSE, value |-> 0, cents |-> 0]

\* str.replace(",", ".")
ReplaceComma(t) == IF t.sep = "," THEN [t EXCEPT !.sep = "."] ELSE t

\* float(txt): white space around the number is allowed, a comma is not.
float(t) ==
    IF t.form = "int" THEN Float(t.value, 0)
    ELSE IF t.form = "decimal" /\ t.sep = "." THEN Float(t.value, t.cents)
    ELSE NotFloat

\* Mutant of ParseFloat: the comma is not replaced.
ParseFloatDotOnly(t) == float(t)

\* float(txt.replace(",", "."))
ParseFloat(t) == float(ReplaceComma(t))

\* round(x): to the nearest whole number, a half to the even one.
round(x) ==
    IF x.cents > 50 \/ (x.cents = 50 /\ x.value % 2 = 1) THEN x.value + 1 ELSE x.value

\* Mutant of parse_wh: the empty text is handed to float() too.
parse_wh_no_default(t) == ParseFloat(Strip(t))

\* Task E parse_wh: (rec.get(key, "") or "").strip(); "" is 0.0
parse_wh(t) ==
    IF t.form \in {"none", "empty"} THEN Float(0, 0) ELSE ParseFloat(Strip(t))

\* to_wh with the fallback of _parse_float: 0 for what is no number.
to_wh_lenient(t) ==
    LET x == ParseFloat(Strip(t))
    IN  IF t.form = "empty" \/ ~x.ok THEN Float(0, 0) ELSE Float(round(x), 0)

\* Task D to_wh: "" is 0, else int(round(float(s)))
to_wh(t) ==
    LET x == ParseFloat(Strip(t))
    IN  IF t.form = "empty" THEN Float(0, 0)
        ELSE IF x.ok THEN Float(round(x), 0)
        ELSE NotFloat

\* Task F _parse_float: (text or "").strip(); 0.0 when float() raises
parse_float(t) ==
    LET x == ParseFloat(Strip(t))
    IN  IF x.ok THEN x ELSE Float(0, 0)

\* Texts of numeric fields: whole numbers, decimals with either separator,
\* and texts that are no number.
NumericTexts ==
    { Decimal(v, sep, c, pad) :
        v \in {0, 1, 2, 19}, sep \in {".", ","}, c \in {0, 5, 49, 50, 51, 95}, pad \in BOOLEAN }
    \cup { [Number(v) EXCEPT !.padded = pad] : v \in {0, 1, 2, 19}, pad \in BOOLEAN }
    \cup { Garbage, Empty, Spaces, NoText }

\* The number as the records keep it.
Wh(x) == IF x.cents = 0 THEN x.value ELSE [whole |-> x.value, cents |-> x.cents]

\* rec[key] of the DictReader: the cell under the last column with that label,
\* None when the row is shorter.
CellOf(fns, cells, key) ==
    LET at == { n \in 1..Len(fns) : fns[n] = key }
        n == CHOOSE m \in at : \A o \in at : m >= o
    IN  IF n <= Len(cells) THEN cells[n] ELSE NoText

NoError == [kind |-> "", line |-> 0, at |-> 0]

\* kind: what was raised; line: the line number the message gives (0: none);
\* at: the physical line of the file that was being read.
Error(kind, line, at) == [kind |-> kind, line |-> line, at |-> at]

\* The frame of read_data: its locals.  pos: lines of the body consumed; i: the counter of
\* enumerate(reader, start=2); skipped: non-blank lines passed over (Task D).
Frame(p, pos, i, cols, rows, err, skipped) ==
    [pc |-> p, pos |-> pos, i |-> i, cols |-> cols, rows |-> rows, error |-> err,
     skipped |-> skipped]

NoFrame == Frame("none", 0, 0, NotDetected, << >>, NoError, 0)

EnterE == Frame("header", 0, 2, NotDetected, << >>, NoError, 0)

EnterD == Frame("rows", 0, 0, NotDetected, << >>, NoError, 0)

\* The header is line 1: body line n is line n + 1 of the file.
PhysicalLineE(n) == n + 1

\* Task E read_data, lines 178-187: the DictReader's fieldnames and _detect_columns.
ReadHeaderE(f, fr) ==
    IF ~f.has_header
    THEN [fr EXCEPT !.pc = "raised", !.error = Error("missing header", 0, 0)]
    ELSE LET d == detect_columns(f.fieldnames)
         IN  IF d.ok THEN [fr EXCEPT !.pc = "rows", !.cols = d]
             ELSE [fr EXCEPT !.pc = "raised", !.cols = d, !.error = Error("schema", 0, 1)]

\* The next line the DictReader yields: it passes over rows that are [].
NextRecord(f, pos) ==
    LET left == { n \in (pos + 1)..Len(f.body) : f.body[n].cells # << >> }
    IN  IF left = {} THEN 0 ELSE CHOOSE n \in left : \A o \in left : n <= o

\* The six numeric fields of a record, or the failure of the first bad one.
WhValues(f, cols, cells) ==
    LET c == [p \in 1..3 |-> parse_wh(CellOf(f.fieldnames, cells, cols.cons_cols[p]))]
        q == [p \in 1..3 |-> parse_wh(CellOf(f.fieldnames, cells, cols.prod_cols[p]))]
    IN  [ok |-> \A p \in 1..3 : c[p].ok /\ q[p].ok,
         cons |-> [p \in 1..3 |-> Wh(c[p])],
         prod |-> [p \in 1..3 |-> Wh(q[p])]]

\* Task E read_data, lines 190-203: one turn of the loop over the records.
ReadRowE(f, fr) ==
    LET n == NextRecord(f, fr.pos)
        cells == f.body[n].cells
        ts == parse_timestamp_E(CellOf(f.fieldnames, cells, fr.cols.timestamp_col))
        wh == WhValues(f, fr.cols, cells)
    IN  IF n = 0 THEN [fr EXCEPT !.pc = "returned", !.pos = Len(f.body)]
        ELSE IF ~ts.ok \/ ~wh.ok
        THEN [fr EXCEPT !.pc = "raised", !.pos = n,
                        !.error = Error("row", fr.i, PhysicalLineE(n))]
        ELSE [fr EXCEPT !.pos = n, !.i = fr.i + 1,
                        !.rows = Append(fr.rows, HourRow(ts.value, wh.cons, wh.prod))]

\* Task D: not raw or all(not c.strip() for c in raw)
IsBlankD(cells) == \A n \in 1..Len(cells) : cells[n].form = "empty"

\* Task D read_data, lines 103-129: one turn of the loop over the lines.
ReadRowD(f, fr) ==
    LET n == fr.pos + 1
        raw == f.body[n].cells
        ts == parse_timestamp_D(raw[1])
        c == [p \in 1..3 |-> to_wh(raw[1 + p])]
        q == [p \in 1..3 |-> to_wh(raw[4 + p])]
    IN  IF n > Len(f.body) THEN [fr EXCEPT !.pc = "returned"]
        ELSE IF IsBlankD(raw) THEN [fr EXCEPT !.pos = n]
        ELSE IF ~ts.ok THEN [fr EXCEPT !.pos = n, !.skipped = fr.skipped + 1]
        ELSE IF Len(raw) < 7
        THEN [fr EXCEPT !.pc = "raised", !.pos = n, !.error = Error("columns", 0, n)]
        ELSE IF \E p \in 1..3 : ~c[p].ok \/ ~q[p].ok
        THEN [fr EXCEPT !.pc = "raised", !.pos = n, !.error = Error("number", 0, n)]
        ELSE [fr EXCEPT !.pos = n,
                        !.rows = Append(fr.rows,
                                        HourRow(ts.value, [p \in 1..3 |-> Wh(c[p])],
                                                [p \in 1..3 |-> Wh(q[p])]))]

EnterF == Frame("rows", 0, 0, NotDetected, << >>, NoError, 0)

\* Task F Measurement: dt and three numbers.
Measurement(dt, consumption, production, temperature) ==
    [dt |-> dt, consumption |-> consumption, production |-> production,
     temperature |-> temperature]

\* Task F read_data, line 108: the keys of a record, stripped and lower-cased.
NormKey(k) == Lower(StripLabel(k))

\* norm.get(key, default): the value under the last header that normalises to
\* the key ("" where the row is too short), the default without such a header.
NormGet(f, cells, key, default) ==
    LET at == { n \in 1..Len(f.fieldnames) : NormKey(f.fieldnames[n]) = key }
        n == CHOOSE m \in at : \A o \in at : m >= o
    IN  IF at = {} THEN default
        ELSE IF n <= Len(cells) THEN cells[n]
        ELSE Empty

\* Task F read_data, lines 106-124: one turn of the loop over the records;
\* nothing in it raises.
ReadRowF(f, fr) ==
    LET n == NextRecord(f, fr.pos)
        cells == f.body[n].cells
        ts == NormGet(f, cells, K_time, Empty)
        cons == NormGet(f, cells, K_consumption_net_kwh, Number(0))
        prod == NormGet(f, cells, K_production_net_kwh, Number(0))
        temp == NormGet(f, cells, K_daily_average_temperature, Number(0))
    IN  IF n = 0 THEN [fr EXCEPT !.pc = "returned", !.pos = Len(f.body)]
        ELSE [fr EXCEPT !.pos = n,
                        !.rows = Append(fr.rows,
                                        Measurement(parse_timestamp_F(ts).value,
                                                    Wh(parse_float(cons)),
                                                    Wh(parse_float(prod)),
                                                    Wh(parse_float(temp))))]

ReadStep(t, f, fr) ==
    IF t = "D" THEN ReadRowD(f, fr)
    ELSE IF t = "F" THEN ReadRowF(f, fr)
    ELSE IF fr.pc = "header" THEN ReadHeaderE(f, fr)
    ELSE ReadRowE(f, fr)

\* read_data run to its end: the frame when it returns or raises.
RECURSIVE RunRead(_, _, _)
RunRead(t, f, fr) ==
    IF fr.pc \in {"returned", "raised"} THEN fr ELSE RunRead(t, f, ReadStep(t, f, fr))

read_data_E(f) == RunRead("E", f, EnterE)

read_data_D(f) == RunRead("D", f, EnterD)

\* Task F read_data on a file that opens.
read_data_F(f) == RunRead("F", f, EnterF)

\* Lines of the input files
TsGood == Text("iso_T", Date(2025, 10, 13), 0, "", FALSE)

TsLate == Text("space_sec", Date(2025, 10, 14), 23, "", FALSE)

GoodRow == Line(<<TsGood, Number(1), Number(2), Number(3), Number(0), Empty, Number(2)>>)

LateRow == Line(<<TsLate, Number(2), Number(1), Spaces, Number(1), Number(1), Number(3)>>)

BadTimeRow == Line(<<Garbage, Number(1), Number(2), Number(3), Number(0), Number(1), Number(2)>>)

BadNumberRow == Line(<<TsGood, Number(1), Garbage, Number(3), Number(0), Number(1), Number(2)>>)

ShortRow == Line(<<TsLate, Number(1), Number(2)>>)

SpacesLine == Line(<<Spaces>>)

BodyLines == { BlankLine, GoodRow, LateRow, BadTimeRow, BadNumberRow, ShortRow, SpacesLine }

\* The columns in another order: the timestamp last.
ShiftedHeader == <<L_Cons1, L_Cons2, L_Cons3, L_Prod1, L_Prod2, L_Prod3, L_Timestamp>>

ReadHeaders ==
    { << >>, GoodHeader, ShiftedHeader,
      [GoodHeader EXCEPT ![1] = L_Aika],
      [GoodHeader EXCEPT ![2] = L_ConsumptionPhase1],
      [GoodHeader EXCEPT ![2] = L_Cons1of2],
      [GoodHeader EXCEPT ![3] = L_Cons1of2],
      [GoodHeader EXCEPT ![3] = L_Cons4],
      [GoodHeader EXCEPT ![6] = L_Power1],
      [GoodHeader EXCEPT ![7] = L_Prod3L1] }

FilesE ==
    { File(FALSE, << >>, << >>) }
    \cup { File(TRUE, fns, body) : fns \in ReadHeaders, body \in SeqsUpTo(BodyLines, MaxLines) }

FilesD == { File(FALSE, << >>, body) : body \in SeqsUpTo(BodyLines, MaxLines) }

\* Task F: time;consumption;production;temperature
NetHeader == <<L_Time, L_NetConsumption, L_NetProduction, L_Temperature>>

MeasurementLine == Line(<<TsGood, Decimal(1, ",", 50, FALSE), Number(0), Decimal(2, ".", 5, TRUE)>>)

BadMeasurementLine == Line(<<TsLate, Garbage, Number(1), Empty>>)

ShortMeasurementLine == Line(<<TsLate, Number(2)>>)

BadTimeMeasurementLine == Line(<<Garbage, Number(1), Garbage, Number(1)>>)

LinesF ==
    { BlankLine, MeasurementLine, BadMeasurementLine, ShortMeasurementLine,
      BadTimeMeasurementLine }

HeadersF ==
    { NetHeader,
      [NetHeader EXCEPT ![1] = L_TimeUpper],
      <<L_Time, L_NetConsumption, L_NetProduction>>,
      <<L_NetConsumption, L_Time, L_NetConsumption, L_Temperature>> }

FilesF ==
    { File(FALSE, << >>, << >>) }
    \cup { File(TRUE, fns, body) : fns \in HeadersF, body \in SeqsUpTo(LinesF, MaxLines) }

----------------------------------------------------------------------------
(* The delimiter of the file *)

\* The sample, by sample.count(c) of the three candidates.
Sample(commas, semicolons, tabs) == [comma |-> commas, semicolon |-> semicolons, tab |-> tabs]

NoSample == Sample(0, 0, 0)

Samples == { Sample(c, s, t) : c \in 0..MaxCount, s \in 0..MaxCount, t \in 0..MaxCount }

Max(a, b) == IF a >= b THEN a ELSE b

\* csv.Sniffer().sniff(sample, delimiters): raises csv.Error, or returns a
\* dialect whose delimiter is a candidate that occurs in the sample.
SniffOutcomes(smp) ==
    {"csv.Error"}
    \cup (IF smp.comma > 0 THEN {","} ELSE {})
    \cup (IF smp.semicolon > 0 THEN {";"} ELSE {})
    \cup (IF smp.tab > 0 THEN {"\t"} ELSE {})

\* Task E read_data, line 168
fallback_E(smp) ==
    IF smp.semicolon >= Max(smp.comma, smp.tab) THEN ";" ELSE ","

\* Task D read_data, line 99
fallback_D(smp) == IF smp.semicolon > 0 THEN ";" ELSE ","

\* Task D read_data, lines 95-99, and Task E read_data, lines 168-173
choose_delimiter(t, smp, outcome) ==
    IF outcome # "csv.Error" THEN outcome
    ELSE IF t = "D" THEN fallback_D(smp)
    ELSE fallback_E(smp)

----------------------------------------------------------------------------
(* Daily Aggregator *)

RowSet == { HourRow(ts, <<w, 1, 0>>, <<0, w, 2>>) : ts \in Timestamps, w \in 1..3 }

ZeroDay == [cons |-> <<0, 0, 0>>, prod |-> <<0, 0, 0>>]

\* Mutant of AddRow: the day's totals are overwritten instead of added to.
AddRowOverwrite(daily, r) ==
    LET d == DateOf(r.timestamp)
        new == [cons |-> r.cons_wh, prod |-> r.prod_wh]
    IN  [x \in (DOMAIN daily) \cup {d} |-> IF x = d THEN new ELSE daily[x]]

\* One iteration of the accumulation loop: daily_wh[d][..][idx] += r...[idx].
AddRow(daily, r) ==
    LET d == DateOf(r.timestamp)
        cur == IF d \in DOMAIN daily THEN daily[d] ELSE ZeroDay
        new == [cons |-> [idx \in 1..3 |-> float_add(cur.cons[idx], r.cons_wh[idx])],
                prod |-> [idx \in 1..3 |-> float_add(cur.prod[idx], r.prod_wh[idx])]]
    IN  [x \in (DOMAIN daily) \cup {d} |-> IF x = d THEN new ELSE daily[x]]

\* Mutant of Accumulate: the loop starts at the second record.
RECURSIVE AccumulateFromSecond(_, _, _)
AccumulateFromSecond(rows, k, daily) ==
    IF k > Len(rows) THEN daily
    ELSE AccumulateFromSecond(rows, k + 1,
                              IF k = 1 THEN daily ELSE AddRow(daily, rows[k]))

RECURSIVE Accumulate(_, _, _)
Accumulate(rows, k, daily) ==
    IF k > Len(rows) THEN daily
    ELSE Accumulate(rows, k + 1, AddRow(daily, rows[k]))

EmptyDaily == [x \in {} |-> ZeroDay]

\* Mutant of KeyLess: orders dates by day of month first (as a dd.mm.yyyy text sorts).
KeyLessByDay(a, b) ==
    \/ a.day < b.day
    \/ a.day = b.day /\ a.month < b.month
    \/ a.day = b.day /\ a.month = b.month /\ a.year < b.year

\* The order sorted() uses on the dictionary keys.
KeyLess(a, b) == DateLess(a, b)

RECURSIVE Sorted(_)
Sorted(S) ==
    IF S = {} THEN << >>
    ELSE LET m == CHOOSE x \in S : \A y \in S \ {x} : KeyLess(x, y)
         IN  <<m>> \o Sorted(S \ {m})

DaySummary(d, c, p) == [day |-> d, cons_kwh |-> c, prod_kwh |-> p]

\* Task E
summarize_days(rows) ==
    LET daily_wh == Accumulate(rows, 1, EmptyDaily)
        keys == Sorted(DOMAIN daily_wh)
    IN  [n \in 1..Len(keys) |->
            DaySummary(keys[n],
                       [idx \in 1..3 |-> kwh_from_wh(daily_wh[keys[n]].cons[idx])],
                       [idx \in 1..3 |-> kwh_from_wh(daily_wh[keys[n]].prod[idx])])]

\* Task D: the OrderedDict as its sequence of items, totals in Wh.
daily_totals_wh(rows) ==
    LET acc == Accumulate(rows, 1, EmptyDaily)
        keys == Sorted(DOMAIN acc)
    IN  [n \in 1..Len(keys) |->
            [day |-> keys[n], cons |-> acc[keys[n]].cons, prod |-> acc[keys[n]].prod]]

Aggregate(t, rows) == IF t = "E" THEN summarize_days(rows) ELSE daily_totals_wh(rows)

----------------------------------------------------------------------------
(* Report Formatter: dates and quantities as characters *)

DigitChars == <<"0", "1", "2", "3", "4", "5", "6", "7", "8", "9">>

\* str(n), n >= 0: the decimal digits, no leading zero.
RECURSIVE Str(_)
Str(n) == IF n < 10 THEN <<DigitChars[n + 1]>> ELSE Str(n \div 10) \o <<DigitChars[(n % 10) + 1]>>

\* f"{n:02d}" and strftime's %d, %m: at least two digits.
Pad2(n) == IF n < 10 THEN <<"0">> \o Str(n) ELSE Str(n)

\* A formatter that writes the month before the day.
fi_date_month_first(d) == Pad2(d.month) \o <<".">> \o Pad2(d.day) \o <<".">> \o Str(d.year)

\* Task D: d.strftime("%d.%m.%Y")
format_date_fi(d) == Pad2(d.day) \o <<".">> \o Pad2(d.month) \o <<".">> \o Str(d.year)

\* Task E: f"{d.day:02d}.{d.month:02d}.{d.year}"
fi_date(d) == Pad2(d.day) \o <<".">> \o Pad2(d.month) \o <<".">> \o Str(d.year)

\* Task F: f"{d.day}.{d.month}.{d.year}"
fmt_date(d) == Str(d.day) \o <<".">> \o Str(d.month) \o <<".">> \o Str(d.year)

\* Task F _input_date: the text the user typed, read with "%d.%m.%Y".
input_date(s) == strptime(Strip(s), "%d.%m.%Y")

\* A quantity: a float that is a whole number of thousandths of its unit.
Quantity(unit, whole, milli) == [unit |-> unit, whole |-> whole, milli |-> milli]

NoQuantity == Quantity("", 0, 0)

\* total_wh / 1000.0
KwhOfWh(q) == Quantity("kWh", q.whole \div 1000, q.whole % 1000)

\* The ways f"{value:.2f}" can round: a third decimal below 5 goes down, one
\* above 5 goes up, and a 5 goes where the binary value of the float lies,
\* which the thousandths do not tell.
RoundsUp(q) ==
    IF q.milli % 10 < 5 THEN {FALSE}
    ELSE IF q.milli % 10 > 5 THEN {TRUE}
    ELSE BOOLEAN

\* f"{value:.2f}": the whole part, a dot and two decimals.
FormatFixed2(q, up) ==
    LET hundredths == q.whole * 100 + (q.milli \div 10) + (IF up THEN 1 ELSE 0)
    IN  Str(hundredths \div 100) \o <<".">> \o Pad2(hundredths % 100)

\* str.replace(".", ",")
ReplaceDot(r) == [n \in 1..Len(r) |-> IF r[n] = "." THEN "," ELSE r[n]]

\* Two decimals with the dot left in.
fi_number_dot(q, up) == FormatFixed2(q, up)

\* Task E fi_number, Task F _fmt_decimal
fi_number(q, up) == ReplaceDot(FormatFixed2(q, up))

\* Task D kwh_str_from_wh
kwh_str_from_wh(q, up) == ReplaceDot(FormatFixed2(KwhOfWh(q), up))

FormatDates ==
    { Date(2025, 10, 13), Date(2025, 11, 1), Date(2026, 1, 5), Date(2024, 2, 29),
      Date(2025, 12, 31) }

\* Texts of the dates that are rendered: timestamps of a file (Task D, Task E)
\* and dates typed at the prompt (Task F).
FormatTexts(t) ==
    IF t = "F"
    THEN { Text("dotted_date", d, 0, "", pad) : d \in FormatDates, pad \in BOOLEAN }
         \cup { Garbage, Text("date_only", Date(2025, 11, 1), 0, "", FALSE) }
    ELSE { Text("iso_T", d, h, z, FALSE) : d \in FormatDates, h \in {0, 23}, z \in {"", "+02:00"} }
         \cup { Text(f, d, 0, "", FALSE) : f \in {"space_min", "date_only"}, d \in FormatDates }
         \cup { Garbage }

\* One day of 24 hourly rows with 1000 Wh in every consumption phase.
HourlyDay ==
    [h \in 1..24 |-> HourRow(Naive(Date(2025, 10, 13), h - 1), <<1000, 1000, 1000>>, <<0, 0, 0>>)]

\* The sum of a consumption phase over rows whose values are whole numbers
\* (binary64 adds whole numbers below 2^53 exactly).
RECURSIVE SumWh(_, _, _)
SumWh(rows, n, idx) == IF n = 0 THEN 0 ELSE SumWh(rows, n - 1, idx) + rows[n].cons_wh[idx]

\* Daily totals in Wh that are rendered.
TotalsWh == { 0, 4, 5, 6, 234, 235, 995, 999, 1000, 9995, 123456, SumWh(HourlyDay, 24, 1) }

----------------------------------------------------------------------------
(* The calendar: date.isocalendar() *)

IsLeap(y) == y % 4 = 0 /\ (y % 100 # 0 \/ y % 400 = 0)

DaysInMonth(y, m) ==
    IF m = 2 THEN (IF IsLeap(y) THEN 29 ELSE 28)
    ELSE IF m \in {4, 6, 9, 11} THEN 30 ELSE 31

RECURSIVE DaysBeforeMonth(_, _)
DaysBeforeMonth(y, m) ==
    IF m = 1 THEN 0 ELSE DaysBeforeMonth(y, m - 1) + DaysInMonth(y, m - 1)

DaysBeforeYear(y) ==
    (y - 1) * 365 + (y - 1) \div 4 - (y - 1) \div 100 + (y - 1) \div 400

\* date.toordinal(): 1 for 0001-01-01
Ordinal(d) == DaysBeforeYear(d.year) + DaysBeforeMonth(d.year, d.month) + d.day

\* date.weekday(): 0 for Monday
Weekday(d) == (Ordinal(d) + 6) % 7

\* The ordinal of the Monday that starts ISO week 1 of year y.
IsoWeek1Monday(y) ==
    LET firstday == DaysBeforeYear(y) + 1
        firstweekday == (firstday + 6) % 7
    IN  IF firstweekday > 3 THEN firstday - firstweekday + 7 ELSE firstday - firstweekday

\* date.isocalendar()[1]
IsoWeek(d) ==
    LET today == Ordinal(d)
        week == (today - IsoWeek1Monday(d.year)) \div 7
    IN  IF today < IsoWeek1Monday(d.year)
        THEN (today - IsoWeek1Monday(d.year - 1)) \div 7 + 1
        ELSE IF week >= 52 /\ today >= IsoWeek1Monday(d.year + 1) THEN 1
        ELSE week + 1

----------------------------------------------------------------------------
(* The main programs of Task E and Task D *)

\* What os.path.exists / open find at a path.
Path(exists, f) == [exists |-> exists, content |-> f]

Absent == Path(FALSE, File(FALSE, << >>, << >>))

\* main's frame.  k: the index of the input path the loop is at.
Main(p, k, sections, gc, gp, rows, daily, err) ==
    [pc |-> p, k |-> k, all_week_sections |-> sections, grand_cons |-> gc, grand_prod |-> gp,
     rows |-> rows, daily |-> daily, error |-> err]

ZeroKwh == [whole |-> 0, milli |-> 0]

NoMain == Main("none", 0, << >>, << >>, << >>, << >>, << >>, "")

EnterMainE == Main("loop", 1, << >>, <<ZeroKwh, ZeroKwh, ZeroKwh>>, <<ZeroKwh, ZeroKwh, ZeroKwh>>,
                   << >>, << >>, "")

EnterMainD == Main("read_data", 1, << >>, << >>, << >>, << >>, << >>, "")

NoReport == [written |-> FALSE, sections |-> << >>, total_cons |-> << >>, total_prod |-> << >>]

\* inputs = ["week41.csv", "week42.csv", "week43.csv"]
InputCount == 3

\* Task E: ISO week of the first row; fails on no rows.
week_number_from_rows(rows) ==
    IF rows = << >> THEN [ok |-> FALSE, week |-> 0]
    ELSE [ok |-> TRUE, week |-> IsoWeek(rows[1].timestamp.date)]

\* The section of one week: its title's week number and one line per day.
format_week_section(week_no, day_summaries) == [week_no |-> week_no, days |-> day_summaries]

\* a + b on kWh floats, in thousandths of a kWh.
kwh_add(a, b) ==
    kwh_from_wh(float_add(a.whole * 1000 + a.milli, b.whole * 1000 + b.milli))

\* grand[i] = ds.xxx_kwh[i]: the totals are those of the last day.
AddDaysOverwrite(grand, day_summaries, n, role) ==
    IF day_summaries = << >> THEN grand
    ELSE LET ds == day_summaries[Len(day_summaries)]
         IN  IF role = "cons" THEN ds.cons_kwh ELSE ds.prod_kwh

\* grand[i] += ds.xxx_kwh[i] for every ds of day_summaries, in order.
RECURSIVE AddDays(_, _, _, _)
AddDays(grand, day_summaries, n, role) ==
    IF n > Len(day_summaries) THEN grand
    ELSE LET ds == day_summaries[n]
             v == IF role = "cons" THEN ds.cons_kwh ELSE ds.prod_kwh
         IN  AddDays([i \in 1..3 |-> kwh_add(grand[i], v[i])], day_summaries, n + 1, role)

\* A loop that passes over a file it cannot read and goes on with the next.
ProcessFileSkipErrors(ins, m) ==
    LET path == ins[m.k]
        r == read_data_E(path.content)
    IN  IF ~path.exists \/ r.pc = "raised" \/ r.rows = << >>
        THEN [m EXCEPT !.k = @ + 1]
        ELSE LET ds == summarize_days(r.rows)
             IN  [m EXCEPT !.k = @ + 1,
                           !.rows = r.rows,
                           !.grand_cons = AddDays(@, ds, 1, "cons"),
                           !.grand_prod = AddDays(@, ds, 1, "prod"),
                           !.all_week_sections =
                               Append(@, format_week_section(week_number_from_rows(r.rows).week, ds))]

\* Task E main: one turn of "for csv_path in input_paths".
ProcessFileE(ins, m) ==
    LET path == ins[m.k]
        r == read_data_E(path.content)
    IN  IF ~path.exists THEN [m EXCEPT !.pc = "raised", !.error = "FileNotFoundError"]
        ELSE IF r.pc = "raised" THEN [m EXCEPT !.pc = "raised", !.error = r.error.kind]
        ELSE IF ~week_number_from_rows(r.rows).ok
        THEN [m EXCEPT !.pc = "raised", !.rows = r.rows, !.error = "empty data"]
        ELSE LET ds == summarize_days(r.rows)
             IN  [m EXCEPT !.k = @ + 1,
                           !.rows = r.rows,
                           !.grand_cons = AddDays(@, ds, 1, "cons"),
                           !.grand_prod = AddDays(@, ds, 1, "prod"),
                           !.all_week_sections =
                               Append(@, format_week_section(week_number_from_rows(r.rows).week, ds))]

\* Task E: the sections, then the overall totals.
write_report(week_sections, total_cons_kwh, total_prod_kwh) ==
    [written |-> TRUE, sections |-> week_sections,
     total_cons |-> total_cons_kwh, total_prod |-> total_prod_kwh]

\* Task D: "No data found." or a title with the week and one line per day.
print_report(daily) ==
    IF daily = << >>
    THEN [written |-> TRUE, sections |-> << >>, total_cons |-> << >>, total_prod |-> << >>]
    ELSE [written |-> TRUE,
          sections |-> << [week_no |-> IsoWeek(daily[1].day), days |-> daily] >>,
          total_cons |-> << >>, total_prod |-> << >>]

\* Task D main, line 194: open the file and read it all.
ReadDataD(ins, m) ==
    LET path == ins[m.k]
        r == read_data_D(path.content)
    IN  IF ~path.exists THEN [m EXCEPT !.pc = "raised", !.error = "FileNotFoundError"]
        ELSE IF r.pc = "raised" THEN [m EXCEPT !.pc = "raised", !.error = r.error.kind]
        ELSE [m EXCEPT !.pc = "daily_totals_wh", !.rows = r.rows]

\* Task F main, line 298: read_data reports a file it does not find and
\* returns no measurements; main goes on to the menu either way.
ReadDataF(ins, m) ==
    LET path == ins[m.k]
        r == read_data_F(path.content)
    IN  IF ~path.exists
        THEN [m EXCEPT !.pc = "show_main_menu", !.rows = << >>, !.error = "File not found"]
        ELSE [m EXCEPT !.pc = "show_main_menu", !.rows = r.rows]

EnterMainF == Main("read_data", 1, << >>, << >>, << >>, << >>, << >>, "")

\* sum(): the float sum of the numbers in their order, from 0.
RECURSIVE sum(_)
sum(xs) == IF xs = << >> THEN 0 ELSE float_add(sum(SubSeq(xs, 1, Len(xs) - 1)), xs[Len(xs)])

Consumptions(rows) == [n \in 1..Len(rows) |-> rows[n].consumption]

Productions(rows) == [n \in 1..Len(rows) |-> rows[n].production]

Temperatures(rows) == [n \in 1..Len(rows) |-> rows[n].temperature]

\* The lines of a Task F report: its title (the kind and the period it names),
\* the two totals, and the average temperature as the sum and the count it is
\* the quotient of (none of them: "n/a").
ReportLines(kind, start, end, rows, avg) ==
    [written |-> TRUE,
     sections |-> << [kind |-> kind, start |-> start, end |-> end, avg |-> avg] >>,
     total_cons |-> << sum(Consumptions(rows)) >>,
     total_prod |-> << sum(Productions(rows)) >>]

Average(rows) == IF rows = << >> THEN << >> ELSE << sum(Temperatures(rows)), Len(rows) >>

\* Mutant of create_daily_report: the end date is not part of the period.
create_daily_report_end_exclusive(data, start_date, end_date) ==
    LET start == IF DateLess(end_date, start_date) THEN end_date ELSE start_date
        end == IF DateLess(end_date, start_date) THEN start_date ELSE end_date
        selected == SelectSeq(data, LAMBDA m : ~DateLess(DateOf(m.dt), start)
                                               /\ DateLess(DateOf(m.dt), end))
    IN  ReportLines("period", start, end, selected, Average(selected))

\* Task F create_daily_report, lines 159-185, with the two dates _input_date
\* returned.
create_daily_report(data, start_date, end_date) ==
    LET start == IF DateLess(end_date, start_date) THEN end_date ELSE start_date
        end == IF DateLess(end_date, start_date) THEN start_date ELSE end_date
        selected == SelectSeq(data, LAMBDA m : ~DateLess(DateOf(m.dt), start)
                                               /\ ~DateLess(end, DateOf(m.dt)))
    IN  ReportLines("period", start, end, selected, Average(selected))

\* Task F _group_by_day, lines 188-193: the dates in the order they first come.
RECURSIVE group_by_day(_)
group_by_day(rows) ==
    IF rows = << >> THEN << >>
    ELSE LET before == group_by_day(SubSeq(rows, 1, Len(rows) - 1))
             d == DateOf(rows[Len(rows)].dt)
         IN  IF \E n \in 1..Len(before) : before[n] = d THEN before ELSE Append(before, d)

\* Task F create_monthly_report, lines 196-230, with the month _input_month
\* returned: the average is taken over the daily averages.
create_monthly_report(data, month) ==
    LET month_rows == SelectSeq(data, LAMBDA m : DateOf(m.dt).year = 2025
                                                 /\ DateOf(m.dt).month = month)
        by_day == group_by_day(month_rows)
        daily_avgs == [n \in 1..Len(by_day) |->
                          Average(SelectSeq(month_rows, LAMBDA m : DateOf(m.dt) = by_day[n]))]
    IN  ReportLines("month", Date(2025, month, 1), Date(2025, month, DaysInMonth(2025, month)),
                    month_rows, daily_avgs)

\* Task F create_yearly_report, lines 233-252
create_yearly_report(data) ==
    LET year_rows == SelectSeq(data, LAMBDA m : DateOf(m.dt).year = 2025)
    IN  ReportLines("year", Date(2025, 1, 1), Date(2025, 12, 31), year_rows, Average(year_rows))

\* Mutant of write_report_to_file: the lines are added to those in the file.
write_report_to_file_append(in_file, lines) == IF in_file.written THEN in_file ELSE lines

\* Task F write_report_to_file, lines 266-270: report.txt is opened with "w"
\* and holds the given lines, whatever it held.
write_report_to_file(in_file, lines) == lines

MainMenuChoices == {"1", "2", "3", "4", ""}

PostMenuChoices == {"1", "2", "3", ""}

\* Task A: a line of reservations.txt, by the number of its "|"-separated
\* parts and by whether every part converts.
ReservationLine(parts, converts) == [parts |-> parts, converts |-> converts]

EnterMainA == Main("exists", 1, << >>, << >>, << >>, << >>, << >>, "")

\* Task A main, lines 40-50: the file must exist; its non-empty lines are read.
CheckFileA(ins, m) ==
    LET path == ins[m.k]
    IN  IF ~path.exists THEN [m EXCEPT !.pc = "exit_1", !.error = "File not found"]
        ELSE IF path.content.body = << >> THEN [m EXCEPT !.pc = "done"]
        ELSE [m EXCEPT !.pc = "lines", !.rows = path.content.body]

\* Task A main, lines 53-119: one turn of the loop over the lines; r is what
\* has been printed so far.
PrintReservationA(m, r) ==
    LET n == Len(r.sections) + 1
        ln == m.rows[n]
    IN  IF ln.parts # 10 THEN <<[m EXCEPT !.pc = "exit_1", !.error = "Invalid column count"], r>>
        ELSE IF ~ln.converts THEN <<[m EXCEPT !.pc = "exit_1", !.error = "Error processing line"], r>>
        ELSE <<[m EXCEPT !.pc = IF n = Len(m.rows) THEN "done" ELSE "lines"],
               [r EXCEPT !.written = TRUE, !.sections = Append(@, ln)]>>

\* Input files of Task E's main
WeekFile == File(TRUE, GoodHeader, <<GoodRow, LateRow>>)

OneRowFile == File(TRUE, [GoodHeader EXCEPT ![1] = L_Timestamp], <<LateRow>>)

\* Rows out of order: the second row is two weeks before the first.
EarlyRow ==
    Line(<<Text("iso_T", Date(2025, 9, 30), 23, "", FALSE), Number(1), Number(0), Number(2),
           Number(0), Number(1), Number(0)>>)

UnorderedFile == File(TRUE, GoodHeader, <<GoodRow, EarlyRow>>)

BadRowFile == File(TRUE, GoodHeader, <<GoodRow, BadTimeRow>>)

HeaderOnlyFile == File(TRUE, GoodHeader, << >>)

NoPhaseFile == File(TRUE, [GoodHeader EXCEPT ![3] = L_Cons4], <<GoodRow>>)

EmptyFile == File(FALSE, << >>, << >>)

PathsE ==
    { Absent } \cup
    { Path(TRUE, f) :
        f \in {WeekFile, OneRowFile, UnorderedFile, BadRowFile, HeaderOnlyFile, NoPhaseFile, EmptyFile} }

PathsD ==
    { Absent, Path(TRUE, File(FALSE, << >>, UnorderedFile.body)) }
    \cup { Path(TRUE, f) : f \in FilesD }

SeptemberLine ==
    Line(<<Text("iso_T", Date(2025, 9, 30), 23, "", FALSE), Number(1), Number(0), Number(2)>>)

OctoberLine == Line(<<TsGood, Number(2), Number(1), Number(0)>>)

PathsF ==
    { Absent } \cup
    { Path(TRUE, File(TRUE, NetHeader, body)) :
        body \in SeqsUpTo({SeptemberLine, OctoberLine, BadMeasurementLine}, MaxLines) }

\* What the user types at _input_date and _input_month, once it is accepted.
ReportDates == { Date(2025, 9, 30), Date(2025, 10, 13), Date(2025, 10, 14) }

ReportMonths == { 10, 11 }

PathsA ==
    { Absent } \cup
    { Path(TRUE, File(FALSE, << >>, body)) :
        body \in SeqsUpTo({ReservationLine(10, TRUE), ReservationLine(10, FALSE),
                           ReservationLine(9, TRUE)}, MaxLines) }

----------------------------------------------------------------------------
(* Tasks C and G: reservations.txt and the three programs that print it *)

\* Texts of the fields of a reservation line: a word (a name, a resource: value
\* tells the words apart), the texts True and False, the label reservationId,
\* and a time of day with or without seconds.
Word(v) == [Text("word", NoDate, 0, "", FALSE) EXCEPT !.value = v]

TrueText == Text("True", NoDate, 0, "", FALSE)

FalseText == Text("False", NoDate, 0, "", FALSE)

ReservationIdText == Text("reservationId", NoDate, 0, "", FALSE)

TimeText(form, h) == Text(form, NoDate, h, "", FALSE)

\* A line of the file: its "|"-separated fields, whether white space comes
\* before the first of them, and whether a newline ends it.
TextLine(lead, fields, newline) == [lead |-> lead, fields |-> fields, newline |-> newline]

\* line.strip()
StripLine(line) == [line EXCEPT !.lead = FALSE, !.newline = FALSE]

\* line.split("|"): the white space at the ends of the line belongs to the
\* first and to the last field.
Split(line) ==
    [n \in 1..Len(line.fields) |->
        [line.fields[n] EXCEPT !.padded = @ \/ (n = 1 /\ line.lead)
                                            \/ (n = Len(line.fields) /\ line.newline)]]

\* The line is the empty string.
IsEmptyString(line) ==
    /\ ~line.lead /\ ~line.newline
    /\ Len(line.fields) = 1 /\ line.fields[1].form = "empty" /\ ~line.fields[1].padded

\* "reservationId" in line
ContainsReservationId(line) ==
    \E n \in 1..Len(line.fields) : line.fields[n].form = "reservationId"

\* f.readline() at the end of the file: the empty string
EndOfFile == TextLine(FALSE, <<Empty>>, FALSE)

\* int(txt): white space around the digits is allowed.
int(t) == IF t.form = "int" THEN Float(t.value, 0) ELSE NotFloat

\* A reservation as the three programs hold it (a list in Task C, an object
\* or a dict in Task G), without the fields that are only stored.
Reservation(reservationId, name, reservationDate, reservationTime, durationHours, price, confirmed, reservedResource) ==
    [reservationId |-> reservationId, name |-> name, reservationDate |-> reservationDate,
     reservationTime |-> reservationTime, durationHours |-> durationHours, price |-> price,
     confirmed |-> confirmed, reservedResource |-> reservedResource]

NoReservation == Reservation(0, NoText, NoDate, 0, 0, 0, FALSE, NoText)

Converted(r) == [ok |-> TRUE, value |-> r, error |-> ""]

NotConverted(kind) == [ok |-> FALSE, value |-> NoReservation, error |-> kind]

\* data[k - 1], where the list is that long
At(data, k) == IF k <= Len(data) THEN data[k] ELSE NoText

\* The exception of the first field (in the order the fields are converted)
\* that is missing or does not convert; "" when there is none.
FirstError(data, converts) ==
    LET bad == { k \in 1..11 : k > Len(data) \/ ~converts[k] }
        k == CHOOSE b \in bad : \A o \in bad : b <= o
    IN  IF bad = {} THEN "" ELSE IF k > Len(data) THEN "IndexError" ELSE "ValueError"

\* Task C convert_reservation_data, lines 41-103: every field is stripped.
convert_reservation_data(reservation) ==
    LET fields == [n \in 1..Len(reservation) |-> Strip(reservation[n])]
        hm == strptime(At(fields, 6), "%H:%M")
        hms == strptime(At(fields, 6), "%H:%M:%S")
        reservation_time == IF hm.ok THEN hm ELSE hms
        converts == [k \in 1..11 |->
                        CASE k \in {1, 7} -> int(At(fields, k)).ok
                          [] k = 5 -> strptime(At(fields, 5), "%Y-%m-%d").ok
                          [] k = 6 -> reservation_time.ok
                          [] k = 8 -> float(At(fields, 8)).ok
                          [] k = 11 -> strptime(At(fields, 11), "%Y-%m-%d %H:%M:%S").ok
                          [] OTHER -> TRUE]
        error == FirstError(fields, converts)
    IN  IF error # "" THEN NotConverted(error)
        ELSE Converted(Reservation(int(fields[1]).value, fields[2],
                                   strptime(fields[5], "%Y-%m-%d").value.date,
                                   reservation_time.value.hour,
                                   int(fields[7]).value, float(fields[8]).value,
                                   fields[9].form = "True", fields[10]))

\* Task G convert_reservation (class lines 46-59, dict lines 7-20): the fields
\* are taken as they are, but for two that are stripped.
convert_reservation(data) ==
    LET converts == [k \in 1..11 |->
                        CASE k \in {1, 7} -> int(At(data, k)).ok
                          [] k = 5 -> strptime(At(data, 5), "%Y-%m-%d").ok
                          [] k = 6 -> strptime(At(data, 6), "%H:%M").ok
                          [] k = 8 -> float(At(data, 8)).ok
                          [] k = 11 -> strptime(Strip(At(data, 11)), "%Y-%m-%d %H:%M:%S").ok
                          [] OTHER -> TRUE]
        error == FirstError(data, converts)
    IN  IF error # "" THEN NotConverted(error)
        ELSE Converted(Reservation(int(data[1]).value, data[2],
                                   strptime(data[5], "%Y-%m-%d").value.date,
                                   strptime(data[6], "%H:%M").value.hour,
                                   int(data[7]).value, float(data[8]).value,
                                   Strip(data[9]).form = "True", data[10]))

\* What fetch_reservations returned or raised.
Fetched(reservations, error) == [reservations |-> reservations, error |-> error]

\* Append the conversion of the fields to what has been fetched; an exception
\* ends the fetching.
AppendConverted(fetched, c) ==
    IF fetched.error # "" THEN fetched
    ELSE IF c.ok THEN Fetched(Append(fetched.reservations, c.value), "")
    ELSE Fetched(<< >>, c.error)

\* Task C fetch_reservations, lines 106-122: every line is a reservation.
RECURSIVE fetch_reservations_C(_)
fetch_reservations_C(lines) ==
    IF lines = << >> THEN Fetched(<< >>, "")
    ELSE AppendConverted(fetch_reservations_C(SubSeq(lines, 1, Len(lines) - 1)),
                         convert_reservation_data(Split(lines[Len(lines)])))

\* The first line as readline().strip() gives it.
FirstLine(lines) == IF lines = << >> THEN EndOfFile ELSE StripLine(lines[1])

\* Task G class fetch_reservations, lines 73-76: the lines after the first are
\* stripped, and converted unless empty.
RECURSIVE RestClass(_, _)
RestClass(fetched, lines) ==
    IF lines = << >> THEN fetched
    ELSE LET line == StripLine(Head(lines))
         IN  RestClass(IF IsEmptyString(line) THEN fetched
                       ELSE AppendConverted(fetched, convert_reservation(Split(line))),
                       Tail(lines))

\* Task G class fetch_reservations, lines 64-78
fetch_reservations_class(lines) ==
    LET first_line == FirstLine(lines)
        reservations == IF ContainsReservationId(first_line) THEN Fetched(<< >>, "")
                        ELSE AppendConverted(Fetched(<< >>, ""),
                                             convert_reservation(Split(first_line)))
    IN  RestClass(reservations, IF lines = << >> THEN << >> ELSE Tail(lines))

\* Task G dict fetch_reservations, lines 35-37: the lines after the first are
\* converted as they are, unless empty when stripped.
RECURSIVE RestDict(_, _)
RestDict(fetched, lines) ==
    IF lines = << >> THEN fetched
    ELSE LET line == Head(lines)
         IN  RestDict(IF IsEmptyString(StripLine(line)) THEN fetched
                      ELSE AppendConverted(fetched, convert_reservation(Split(line))),
                      Tail(lines))

\* Mutant of fetch_reservations_dict: the first line is a reservation whatever
\* it contains.
fetch_reservations_dict_no_header(lines) ==
    RestDict(AppendConverted(Fetched(<< >>, ""), convert_reservation(Split(FirstLine(lines)))),
             IF lines = << >> THEN << >> ELSE Tail(lines))

\* Task G dict fetch_reservations, lines 25-39
fetch_reservations_dict(lines) ==
    LET first == FirstLine(lines)
        reservations == IF ContainsReservationId(first) THEN Fetched(<< >>, "")
                        ELSE AppendConverted(Fetched(<< >>, ""), convert_reservation(Split(first)))
    IN  RestDict(reservations, IF lines = << >> THEN << >> ELSE Tail(lines))

\* A printed line: which line it is, and the texts, dates and numbers in it.
Printed(kind, texts, dates, numbers) ==
    [kind |-> kind, texts |-> texts, dates |-> dates, numbers |-> numbers]

Title(n) == Printed("title", << >>, << >>, <<n>>)

EmptyPrint == Printed("", << >>, << >>, << >>)

\* confirmed_reservations (Task C lines 125-130, Task G class 83-89, dict 44-50)
confirmed_reservations(reservations) ==
    LET confirmed == SelectSeq(reservations, LAMBDA r : r.confirmed)
    IN  [n \in 1..Len(confirmed) |->
            Printed("confirmed", <<confirmed[n].name, confirmed[n].reservedResource>>,
                    <<confirmed[n].reservationDate>>, <<confirmed[n].reservationTime>>)]

\* Task G class Reservation.is_long, lines 37-38
is_long(r) == r.durationHours > 3

\* Which reservations long_reservations prints: Task C line 139, Task G class
\* line 93, Task G dict line 54.
LongIn(program, r) ==
    CASE program = "C" -> r.durationHours >= 3
      [] program = "G class" -> is_long(r)
      [] program = "G dict" -> r.durationHours > 3

\* long_reservations (Task C lines 133-144, Task G class 91-98, dict 52-59)
long_reservations(program, reservations) ==
    LET long == SelectSeq(reservations, LAMBDA r : LongIn(program, r))
    IN  [n \in 1..Len(long) |->
            Printed("long", <<long[n].name, long[n].reservedResource>>,
                    <<long[n].reservationDate>>,
                    <<long[n].reservationTime, long[n].durationHours>>)]

\* confirmation_statuses (Task C lines 147-154, Task G class 100-102, dict 61-63)
confirmation_statuses(reservations) ==
    [n \in 1..Len(reservations) |->
        Printed(IF reservations[n].confirmed THEN "Confirmed" ELSE "NOT Confirmed",
                <<reservations[n].name>>, << >>, << >>)]

\* confirmation_summary (Task C lines 157-166, Task G class 104-111, dict 65-72)
confirmation_summary(program, reservations) ==
    LET confirmed_count == Len(SelectSeq(reservations, LAMBDA r : r.confirmed))
        not_confirmed_count == IF program = "C" THEN Len(reservations) - confirmed_count
                               ELSE (Len(reservations) + 1) - confirmed_count
    IN  << Printed("Confirmed reservations", << >>, << >>, <<confirmed_count>>),
           Printed("Not confirmed reservations", << >>, << >>, <<not_confirmed_count>>) >>

\* total_revenue (Task C lines 169-177, Task G class 113-115, dict 74-76)
total_revenue(reservations) ==
    LET confirmed == SelectSeq(reservations, LAMBDA r : r.confirmed)
        total == sum([n \in 1..Len(confirmed) |->
                         confirmed[n].durationHours * confirmed[n].price])
    IN  << Printed("Total revenue", << >>, << >>, <<total>>) >>

\* main's frame in one of the three programs.
Program(p, reservations, output, error) ==
    [pc |-> p, reservations |-> reservations, output |-> output, error |-> error]

EnterProgram == Program("fetch_reservations", << >>, << >>, "")

Programs == <<"C", "G class", "G dict">>

\* The functions main calls after fetch_reservations, in their order.
Sections ==
    <<"confirmed_reservations", "long_reservations", "confirmation_statuses",
      "confirmation_summary", "total_revenue", "done">>

\* main of Task C prints an empty line after each section but the last
\* (lines 188-204); the mains of Task G print none.
AfterSection(program, n) == IF program = "C" /\ n < 5 THEN <<EmptyPrint>> ELSE << >>

\* One call of main to an output function, with the title printed before it.
PrintSection(program, m, n, lines) ==
    [m EXCEPT !.pc = Sections[n + 1],
              !.output = @ \o <<Title(n)>> \o lines \o AfterSection(program, n)]

\* Lines of reservations.txt
ReservationFields(id, name, time, duration, confirmed) ==
    <<Number(id), Word(name), Word(0), Word(0), Text("date_only", Date(2025, 11, 12), 0, "", FALSE),
      time, Number(duration), Number(2), confirmed, Word(9),
      Text("space_sec", Date(2025, 8, 12), 14, "", FALSE)>>

HeaderLine ==
    TextLine(FALSE, <<ReservationIdText>> \o [n \in 1..10 |-> Word(10 + n)], TRUE)

OnlyNewline == TextLine(FALSE, <<Empty>>, TRUE)

ShortStay == TextLine(FALSE, ReservationFields(1, 1, TimeText("time_min", 9), 2, TrueText), TRUE)

ThreeHours == TextLine(TRUE, ReservationFields(2, 2, TimeText("time_min", 12), 3, FalseText), TRUE)

LongStay == TextLine(FALSE, ReservationFields(3, 3, TimeText("time_min", 15), 4, TrueText), TRUE)

WithSeconds == TextLine(FALSE, ReservationFields(4, 4, TimeText("time_sec", 9), 3, TrueText), TRUE)

TenFields ==
    TextLine(FALSE, SubSeq(ReservationFields(5, 5, TimeText("time_min", 9), 4, TrueText), 1, 10), TRUE)

\* A line that ends after the date: the newline is part of the date field.
FiveFields ==
    TextLine(FALSE, SubSeq(ReservationFields(6, 6, TimeText("time_min", 9), 4, TrueText), 1, 5), TRUE)

ReservationLines ==
    {HeaderLine, OnlyNewline, ShortStay, ThreeHours, LongStay, WithSeconds, TenFields, FiveFields}

----------------------------------------------------------------------------
(* Values of the variables a specification does not use *)

IdleAgg ==
    /\ hour_rows = << >> /\ summaries = << >>
    /\ shuffled = << >> /\ shuffled_summaries = << >>

IdleTs == text = NoText /\ parsed = NotParsed

IdleDetect ==
    /\ fieldnames = << >> /\ detected = NotDetected
    /\ respelled = NotRespelled /\ respelled_detected = NotDetected

IdleRead == file = File(FALSE, << >>, << >>) /\ rd = NoFrame

IdleNum == field = NoText /\ number = NotFloat

IdleSniff == sample = NoSample /\ sniffed = "" /\ delimiter = ""

IdleFmt == quantity = NoQuantity /\ rendered = << >>

IdleMenu == report_txt = NoReport /\ choice = ""

IdleRes == reservations_txt = << >> /\ running = 0 /\ programs = << >>

IdleMain == inputs = << >> /\ mn = NoMain /\ report = NoReport

----------------------------------------------------------------------------
(* read_data of Task D and of Task E choosing the delimiter *)

InitSniff ==
    /\ task \in {"D", "E"}
    /\ pc = "sample"
    /\ sample \in Samples
    /\ sniffed = ""
    /\ delimiter = ""
    /\ IdleAgg /\ IdleTs /\ IdleDetect /\ IdleRead /\ IdleMain /\ IdleNum /\ IdleFmt /\ IdleMenu /\ IdleRes

\* try: csv.Sniffer().sniff(sample, ...)
Sniff ==
    /\ pc = "sample"
    /\ \E outcome \in SniffOutcomes(sample) : sniffed' = outcome
    /\ pc' = "sniffed"
    /\ UNCHANGED <<task, sample, delimiter, aggVars, tsVars, detectVars, readVars, mainVars, numVars, fmtVars, menuVars, resVars>>

\* The delimiter handed to csv.reader (Task D) or csv.DictReader (Task E)
ChooseDelimiter ==
    /\ pc = "sniffed"
    /\ delimiter' = choose_delimiter(task, sample, sniffed)
    /\ pc' = "reader"
    /\ UNCHANGED <<task, sample, sniffed, aggVars, tsVars, detectVars, readVars, mainVars, numVars, fmtVars, menuVars, resVars>>

NextSniff == Sniff \/ ChooseDelimiter

SpecSniff == InitSniff /\ [][NextSniff]_vars

----------------------------------------------------------------------------
(* A timestamp parser applied to a text *)

InitTs ==
    /\ task \in {"D", "E", "F"}
    /\ pc = "start"
    /\ text \in TimestampTexts
    /\ parsed = NotParsed
    /\ IdleAgg /\ IdleDetect /\ IdleRead /\ IdleMain /\ IdleNum /\ IdleSniff /\ IdleFmt /\ IdleMenu /\ IdleRes

ParseTimestampD ==
    /\ task = "D" /\ pc = "start"
    /\ parsed' = parse_timestamp_D(text)
    /\ pc' = "parsed"
    /\ UNCHANGED <<task, text, aggVars, detectVars, readVars, mainVars, numVars, sniffVars, fmtVars, menuVars, resVars>>

ParseTimestampE ==
    /\ task = "E" /\ pc = "start"
    /\ parsed' = parse_timestamp_E(text)
    /\ pc' = "parsed"
    /\ UNCHANGED <<task, text, aggVars, detectVars, readVars, mainVars, numVars, sniffVars, fmtVars, menuVars, resVars>>

ParseTimestampF ==
    /\ task = "F" /\ pc = "start"
    /\ parsed' = parse_timestamp_F(text)
    /\ pc' = "parsed"
    /\ UNCHANGED <<task, text, aggVars, detectVars, readVars, mainVars, numVars, sniffVars, fmtVars, menuVars, resVars>>

NextTs == ParseTimestampD \/ ParseTimestampE \/ ParseTimestampF

SpecTs == InitTs /\ [][NextTs]_vars

----------------------------------------------------------------------------
(* The formatters applied to a parsed date and to a daily total *)

InitFmt ==
    /\ task \in {"D", "E", "F"}
    /\ \/ /\ pc = "date"
          /\ text \in FormatTexts(task)
          /\ quantity = NoQuantity
       \/ /\ pc = "quantity"
          /\ text = NoText
          /\ \E wh \in TotalsWh :
                quantity = IF task = "D" THEN Quantity("Wh", wh, 0)
                           ELSE KwhOfWh(Quantity("Wh", wh, 0))
    /\ parsed = NotParsed
    /\ rendered = << >>
    /\ IdleAgg /\ IdleDetect /\ IdleRead /\ IdleMain /\ IdleNum /\ IdleSniff /\ IdleMenu /\ IdleRes

\* The timestamp of a row (Task D, Task E) or the date typed (Task F) is parsed.
ParseDate ==
    /\ pc = "date"
    /\ parsed' = (CASE task = "D" -> parse_timestamp_D(text)
                     [] task = "E" -> parse_timestamp_E(text)
                     [] task = "F" -> input_date(text))
    /\ pc' = IF parsed'.ok THEN "format" ELSE "rejected"
    /\ UNCHANGED <<task, text, quantity, rendered, aggVars, detectVars, readVars, mainVars, numVars, sniffVars, menuVars, resVars>>

\* The date of the parsed value is rendered.
FormatDate ==
    /\ pc = "format"
    /\ rendered' = (CASE task = "D" -> format_date_fi(DateOf(parsed.value))
                       [] task = "E" -> fi_date(DateOf(parsed.value))
                       [] task = "F" -> fmt_date(DateOf(parsed.value)))
    /\ pc' = "date rendered"
    /\ UNCHANGED <<task, text, parsed, quantity, aggVars, detectVars, readVars, mainVars, numVars, sniffVars, menuVars, resVars>>

\* A daily total (Task D: in Wh) or an overall total is rendered.
FormatQuantity ==
    /\ pc = "quantity"
    /\ \E up \in RoundsUp(IF task = "D" THEN KwhOfWh(quantity) ELSE quantity) :
          rendered' = IF task = "D" THEN kwh_str_from_wh(quantity, up)
                      ELSE fi_number(quantity, up)
    /\ pc' = "quantity rendered"
    /\ UNCHANGED <<task, text, parsed, quantity, aggVars, detectVars, readVars, mainVars, numVars, sniffVars, menuVars, resVars>>

NextFmt == ParseDate \/ FormatDate \/ FormatQuantity

SpecFmt == InitFmt /\ [][NextFmt]_vars

----------------------------------------------------------------------------
(* A numeric normalizer applied to the text of a field *)

InitNum ==
    /\ task \in {"D", "E", "F"}
    /\ pc = "start"
    /\ field \in (IF task = "D" THEN NumericTexts \ {NoText} ELSE NumericTexts)
    /\ number = NotFloat
    /\ IdleAgg /\ IdleTs /\ IdleDetect /\ IdleRead /\ IdleMain /\ IdleSniff /\ IdleFmt /\ IdleMenu /\ IdleRes

ToWh ==
    /\ task = "D" /\ pc = "start"
    /\ number' = to_wh(field)
    /\ pc' = "normalized"
    /\ UNCHANGED <<task, field, aggVars, tsVars, detectVars, readVars, mainVars, sniffVars, fmtVars, menuVars, resVars>>

ParseWh ==
    /\ task = "E" /\ pc = "start"
    /\ number' = parse_wh(field)
    /\ pc' = "normalized"
    /\ UNCHANGED <<task, field, aggVars, tsVars, detectVars, readVars, mainVars, sniffVars, fmtVars, menuVars, resVars>>

ParseFloatF ==
    /\ task = "F" /\ pc = "start"
    /\ number' = parse_float(field)
    /\ pc' = "normalized"
    /\ UNCHANGED <<task, field, aggVars, tsVars, detectVars, readVars, mainVars, sniffVars, fmtVars, menuVars, resVars>>

NextNum == ToWh \/ ParseWh \/ ParseFloatF

SpecNum == InitNum /\ [][NextNum]_vars

----------------------------------------------------------------------------
(* The column detector applied to a header row *)

InitDetect ==
    /\ task = "E"
    /\ pc = "start"
    /\ fieldnames \in HeaderRows
    /\ detected = NotDetected
    /\ respelled = NotRespelled /\ respelled_detected = NotDetected
    /\ IdleAgg /\ IdleTs /\ IdleRead /\ IdleMain /\ IdleNum /\ IdleSniff /\ IdleFmt /\ IdleMenu /\ IdleRes

DetectColumns ==
    /\ pc = "start"
    /\ detected' = detect_columns(fieldnames)
    /\ pc' = "detected"
    /\ UNCHANGED <<task, fieldnames, respelled, respelled_detected,
                   aggVars, tsVars, readVars, mainVars, numVars, sniffVars, fmtVars, menuVars, resVars>>

NextDetect == DetectColumns

SpecDetect == InitDetect /\ [][NextDetect]_vars

----------------------------------------------------------------------------
(* The column detector applied to a header row and to a respelling of it *)

InitRespell ==
    /\ task = "E"
    /\ pc = "start"
    /\ fieldnames \in RespellHeaders
    /\ detected = NotDetected
    /\ respelled \in UNION { { Respelled(fieldnames, n, h) : h \in Respellings(fieldnames[n]) } :
                                n \in 1..Len(fieldnames) }
    /\ respelled_detected = NotDetected
    /\ IdleAgg /\ IdleTs /\ IdleRead /\ IdleMain /\ IdleNum /\ IdleSniff /\ IdleFmt /\ IdleMenu /\ IdleRes

DetectRespelled ==
    /\ pc = "start"
    /\ detected' = detect_columns(fieldnames)
    /\ respelled_detected' = detect_columns(respelled.fieldnames)
    /\ pc' = "detected"
    /\ UNCHANGED <<task, fieldnames, respelled, aggVars, tsVars, readVars, mainVars, numVars, sniffVars, fmtVars, menuVars, resVars>>

NextRespell == DetectRespelled

SpecRespell == InitRespell /\ [][NextRespell]_vars

----------------------------------------------------------------------------
(* read_data of Task D and of Task E, one turn of its loop at a time *)

InitRead ==
    /\ task \in {"D", "E", "F"}
    /\ pc = "read_data"
    /\ file \in (CASE task = "E" -> FilesE [] task = "D" -> FilesD [] task = "F" -> FilesF)
    /\ rd = (CASE task = "E" -> EnterE [] task = "D" -> EnterD [] task = "F" -> EnterF)
    /\ IdleAgg /\ IdleTs /\ IdleDetect /\ IdleMain /\ IdleNum /\ IdleSniff /\ IdleFmt /\ IdleMenu /\ IdleRes

ReadHeader ==
    /\ task = "E" /\ pc = "read_data" /\ rd.pc = "header"
    /\ rd' = ReadHeaderE(file, rd)
    /\ UNCHANGED <<task, pc, file, aggVars, tsVars, detectVars, mainVars, numVars, sniffVars, fmtVars, menuVars, resVars>>

ReadRecord ==
    /\ task = "E" /\ pc = "read_data" /\ rd.pc = "rows"
    /\ rd' = ReadRowE(file, rd)
    /\ UNCHANGED <<task, pc, file, aggVars, tsVars, detectVars, mainVars, numVars, sniffVars, fmtVars, menuVars, resVars>>

ReadLine ==
    /\ task = "D" /\ pc = "read_data" /\ rd.pc = "rows"
    /\ rd' = ReadRowD(file, rd)
    /\ UNCHANGED <<task, pc, file, aggVars, tsVars, detectVars, mainVars, numVars, sniffVars, fmtVars, menuVars, resVars>>

ReadMeasurement ==
    /\ task = "F" /\ pc = "read_data" /\ rd.pc = "rows"
    /\ rd' = ReadRowF(file, rd)
    /\ UNCHANGED <<task, pc, file, aggVars, tsVars, detectVars, mainVars, numVars, sniffVars, fmtVars, menuVars, resVars>>

NextRead == ReadHeader \/ ReadRecord \/ ReadLine \/ ReadMeasurement

SpecRead == InitRead /\ [][NextRead]_vars

----------------------------------------------------------------------------
(* The main programs, one call or one turn of the loop at a time *)

InitMain ==
    /\ task \in {"A", "D", "E", "F"}
    /\ pc = "main"
    /\ inputs \in (CASE task = "E" -> [1..InputCount -> PathsE]
                      [] task = "D" -> [1..1 -> PathsD]
                      [] task = "F" -> [1..1 -> PathsF]
                      [] task = "A" -> [1..1 -> PathsA])
    /\ mn = (CASE task = "E" -> EnterMainE
               [] task = "D" -> EnterMainD
               [] task = "F" -> EnterMainF
               [] task = "A" -> EnterMainA)
    /\ report = NoReport
    /\ IdleAgg /\ IdleTs /\ IdleDetect /\ IdleRead /\ IdleNum /\ IdleSniff /\ IdleFmt /\ IdleMenu /\ IdleRes

ProcessFile ==
    /\ task = "E" /\ pc = "main" /\ mn.pc = "loop" /\ mn.k <= InputCount
    /\ mn' = ProcessFileE(inputs, mn)
    /\ UNCHANGED <<task, pc, inputs, report, aggVars, tsVars, detectVars, readVars, numVars, sniffVars, fmtVars, menuVars, resVars>>

WriteReport ==
    /\ task = "E" /\ pc = "main" /\ mn.pc = "loop" /\ mn.k > InputCount
    /\ report' = write_report(mn.all_week_sections, mn.grand_cons, mn.grand_prod)
    /\ mn' = [mn EXCEPT !.pc = "done"]
    /\ UNCHANGED <<task, pc, inputs, aggVars, tsVars, detectVars, readVars, numVars, sniffVars, fmtVars, menuVars, resVars>>

ReadData ==
    /\ task = "D" /\ pc = "main" /\ mn.pc = "read_data"
    /\ mn' = ReadDataD(inputs, mn)
    /\ UNCHANGED <<task, pc, inputs, report, aggVars, tsVars, detectVars, readVars, numVars, sniffVars, fmtVars, menuVars, resVars>>

DailyTotals ==
    /\ task = "D" /\ pc = "main" /\ mn.pc = "daily_totals_wh"
    /\ mn' = [mn EXCEPT !.pc = "print_report", !.daily = daily_totals_wh(mn.rows)]
    /\ UNCHANGED <<task, pc, inputs, report, aggVars, tsVars, detectVars, readVars, numVars, sniffVars, fmtVars, menuVars, resVars>>

PrintReport ==
    /\ task = "D" /\ pc = "main" /\ mn.pc = "print_report"
    /\ report' = print_report(mn.daily)
    /\ mn' = [mn EXCEPT !.pc = "done"]
    /\ UNCHANGED <<task, pc, inputs, aggVars, tsVars, detectVars, readVars, numVars, sniffVars, fmtVars, menuVars, resVars>>

\* Task F main, line 298
ReadMeasurements ==
    /\ task = "F" /\ pc = "main" /\ mn.pc = "read_data"
    /\ mn' = ReadDataF(inputs, mn)
    /\ UNCHANGED <<task, pc, inputs, report, aggVars, tsVars, detectVars, readVars, numVars, sniffVars, fmtVars, menuVars, resVars>>

\* Task F main, lines 301-317: the main menu, and the report of the choice
ShowMainMenu ==
    /\ task = "F" /\ pc = "main" /\ mn.pc = "show_main_menu"
    /\ \E typed \in MainMenuChoices :
          /\ choice' = typed
          /\ CASE typed = "1" ->
                    /\ \E start \in ReportDates, end \in ReportDates :
                          report' = create_daily_report(mn.rows, start, end)
                    /\ mn' = [mn EXCEPT !.pc = "show_post_menu"]
               [] typed = "2" ->
                    /\ \E month \in ReportMonths : report' = create_monthly_report(mn.rows, month)
                    /\ mn' = [mn EXCEPT !.pc = "show_post_menu"]
               [] typed = "3" ->
                    /\ report' = create_yearly_report(mn.rows)
                    /\ mn' = [mn EXCEPT !.pc = "show_post_menu"]
               [] typed = "4" ->
                    /\ mn' = [mn EXCEPT !.pc = "done"]
                    /\ UNCHANGED report
               [] OTHER -> UNCHANGED <<mn, report>>
    /\ UNCHANGED <<task, pc, inputs, report_txt, aggVars, tsVars, detectVars, readVars, numVars, sniffVars, fmtVars, resVars>>

\* Task F main, lines 319-330: the menu under a report
ShowPostMenu ==
    /\ task = "F" /\ pc = "main" /\ mn.pc = "show_post_menu"
    /\ \E post \in PostMenuChoices :
          /\ choice' = post
          /\ CASE post = "1" ->
                    /\ report_txt' = write_report_to_file(report_txt, report)
                    /\ UNCHANGED mn
               [] post = "2" ->
                    /\ mn' = [mn EXCEPT !.pc = "show_main_menu"]
                    /\ UNCHANGED report_txt
               [] post = "3" ->
                    /\ mn' = [mn EXCEPT !.pc = "done"]
                    /\ UNCHANGED report_txt
               [] OTHER -> UNCHANGED <<mn, report_txt>>
    /\ UNCHANGED <<task, pc, inputs, report, aggVars, tsVars, detectVars, readVars, numVars, sniffVars, fmtVars, resVars>>

\* Task A main, lines 40-50
CheckFile ==
    /\ task = "A" /\ pc = "main" /\ mn.pc = "exists"
    /\ mn' = CheckFileA(inputs, mn)
    /\ UNCHANGED <<task, pc, inputs, report, aggVars, tsVars, detectVars, readVars, numVars, sniffVars, fmtVars, menuVars, resVars>>

\* Task A main, lines 53-119
PrintReservation ==
    /\ task = "A" /\ pc = "main" /\ mn.pc = "lines"
    /\ LET printed == PrintReservationA(mn, report)
       IN  mn' = printed[1] /\ report' = printed[2]
    /\ UNCHANGED <<task, pc, inputs, aggVars, tsVars, detectVars, readVars, numVars, sniffVars, fmtVars, menuVars, resVars>>

NextMain ==
    \/ ProcessFile \/ WriteReport \/ ReadData \/ DailyTotals \/ PrintReport
    \/ ReadMeasurements \/ ShowMainMenu \/ ShowPostMenu \/ CheckFile \/ PrintReservation

SpecMain == InitMain /\ [][NextMain]_vars

----------------------------------------------------------------------------
(* The aggregator applied to a list of records, and to a reordering of it *)

InitAgg ==
    /\ task \in {"D", "E"}
    /\ pc = "start"
    /\ hour_rows \in SeqsUpTo(RowSet, MaxRows)
    /\ summaries = << >>
    /\ shuffled = << >>
    /\ shuffled_summaries = << >>
    /\ IdleTs /\ IdleDetect /\ IdleRead /\ IdleMain /\ IdleNum /\ IdleSniff /\ IdleFmt /\ IdleMenu /\ IdleRes

SummarizeDays ==
    /\ task = "E" /\ pc = "start"
    /\ summaries' = summarize_days(hour_rows)
    /\ pc' = "summarized"
    /\ UNCHANGED <<task, hour_rows, shuffled, shuffled_summaries, tsVars, detectVars, readVars, mainVars, numVars, sniffVars, fmtVars, menuVars, resVars>>

DailyTotalsWh ==
    /\ task = "D" /\ pc = "start"
    /\ summaries' = daily_totals_wh(hour_rows)
    /\ pc' = "summarized"
    /\ UNCHANGED <<task, hour_rows, shuffled, shuffled_summaries, tsVars, detectVars, readVars, mainVars, numVars, sniffVars, fmtVars, menuVars, resVars>>

\* The same call on the records in another order.
AggregateShuffled ==
    /\ pc = "summarized"
    /\ \E p \in Bijections(Len(hour_rows)) :
          /\ shuffled' = Permutation(hour_rows, p)
          /\ shuffled_summaries' = Aggregate(task, Permutation(hour_rows, p))
    /\ pc' = "reshuffled"
    /\ UNCHANGED <<task, hour_rows, summaries, tsVars, detectVars, readVars, mainVars, numVars, sniffVars, fmtVars, menuVars, resVars>>

NextAgg == SummarizeDays \/ DailyTotalsWh \/ AggregateShuffled

SpecAgg == InitAgg /\ [][NextAgg]_vars

----------------------------------------------------------------------------
(* The programs of Task C and Task G, run one after the other on the same
   reservations.txt *)

Running(section) ==
    /\ task = "C, G" /\ pc = "main"
    /\ running \in 1..Len(Programs)
    /\ programs[running].pc = section

\* The file as it is on disk: only its last line can be without a newline.
OnDisk(body, newline) ==
    [n \in 1..Len(body) |-> IF n = Len(body) THEN [body[n] EXCEPT !.newline = newline] ELSE body[n]]

InitRes ==
    /\ task = "C, G"
    /\ pc = "main"
    /\ \E body \in SeqsUpTo(ReservationLines, MaxLines), newline \in BOOLEAN :
          reservations_txt = OnDisk(body, newline)
    /\ running = 1
    /\ programs = [n \in 1..Len(Programs) |-> EnterProgram]
    /\ IdleAgg /\ IdleTs /\ IdleDetect /\ IdleRead /\ IdleMain /\ IdleNum /\ IdleSniff /\ IdleFmt /\ IdleMenu

fetch_reservations(program, lines) ==
    CASE program = "C" -> fetch_reservations_C(lines)
      [] program = "G class" -> fetch_reservations_class(lines)
      [] program = "G dict" -> fetch_reservations_dict(lines)

\* main, first line (Task C line 184, Task G class 121, dict 82): an exception
\* ends the program before it prints anything.
FetchReservations ==
    /\ Running("fetch_reservations")
    /\ LET fetched == fetch_reservations(Programs[running], reservations_txt)
       IN  IF fetched.error # ""
           THEN /\ programs' = [programs EXCEPT ![running] =
                                    Program("raised", << >>, << >>, fetched.error)]
                /\ running' = running + 1
           ELSE /\ programs' = [programs EXCEPT ![running] =
                                    Program(Sections[1], fetched.reservations, << >>, "")]
                /\ UNCHANGED running
    /\ UNCHANGED <<task, pc, reservations_txt, aggVars, tsVars, detectVars, readVars, mainVars, numVars, sniffVars, fmtVars, menuVars>>

\* main: "1) Confirmed Reservations"
ConfirmedReservations ==
    /\ Running("confirmed_reservations")
    /\ LET m == programs[running]
       IN  programs' = [programs EXCEPT ![running] =
                           PrintSection(Programs[running], m, 1,
                                        confirmed_reservations(m.reservations))]
    /\ UNCHANGED <<task, pc, reservations_txt, running, aggVars, tsVars, detectVars, readVars, mainVars, numVars, sniffVars, fmtVars, menuVars>>

\* main: "2) Long Reservations (>= 3 h)"
LongReservations ==
    /\ Running("long_reservations")
    /\ LET m == programs[running]
       IN  programs' = [programs EXCEPT ![running] =
                           PrintSection(Programs[running], m, 2,
                                        long_reservations(Programs[running], m.reservations))]
    /\ UNCHANGED <<task, pc, reservations_txt, running, aggVars, tsVars, detectVars, readVars, mainVars, numVars, sniffVars, fmtVars, menuVars>>

\* main: "3) Reservation Confirmation Status"
ConfirmationStatuses ==
    /\ Running("confirmation_statuses")
    /\ LET m == programs[running]
       IN  programs' = [programs EXCEPT ![running] =
                           PrintSection(Programs[running], m, 3,
                                        confirmation_statuses(m.reservations))]
    /\ UNCHANGED <<task, pc, reservations_txt, running, aggVars, tsVars, detectVars, readVars, mainVars, numVars, sniffVars, fmtVars, menuVars>>

\* main: "4) Confirmation Summary"
ConfirmationSummary ==
    /\ Running("confirmation_summary")
    /\ LET m == programs[running]
       IN  programs' = [programs EXCEPT ![running] =
                           PrintSection(Programs[running], m, 4,
                                        confirmation_summary(Programs[running], m.reservations))]
    /\ UNCHANGED <<task, pc, reservations_txt, running, aggVars, tsVars, detectVars, readVars, mainVars, numVars, sniffVars, fmtVars, menuVars>>

\* main: "5) Total Revenue from Confirmed Reservations"; the program ends.
TotalRevenue ==
    /\ Running("total_revenue")
    /\ LET m == programs[running]
       IN  programs' = [programs EXCEPT ![running] =
                           PrintSection(Programs[running], m, 5, total_revenue(m.reservations))]
    /\ running' = running + 1
    /\ UNCHANGED <<task, pc, reservations_txt, aggVars, tsVars, detectVars, readVars, mainVars, numVars, sniffVars, fmtVars, menuVars>>

NextRes ==
    \/ FetchReservations \/ ConfirmedReservations \/ LongReservations
    \/ ConfirmationStatuses \/ ConfirmationSummary \/ TotalRevenue

SpecRes == InitRes /\ [][NextRes]_vars

----------------------------------------------------------------------------
(* Claims about the Daily Aggregator (checked under SpecAgg) *)

Aggregated == pc \in {"summarized", "reshuffled"}

SummaryDays == { summaries[n].day : n \in 1..Len(summaries) }

InputDays == { hour_rows[k].timestamp.date : k \in 1..Len(hour_rows) }

\* C1: the aggregator emits at most one summary per calendar date, and the dates
\* of its output are exactly the distinct calendar dates of the input records
\* (empty input gives empty output).
C1_DatesExact ==
    Aggregated =>
        /\ \A n, m \in 1..Len(summaries) : summaries[n].day = summaries[m].day => n = m
        /\ SummaryDays = InputDays

C1_Witness ==
    /\ pc = "summarized"
    /\ Len(hour_rows) = 3
    /\ Len(summaries) = 2

\* The float sum, in input order, of one quantity over the records of date d.
RECURSIVE SumOnDate(_, _, _, _, _)
SumOnDate(rows, k, d, role, idx) ==
    IF k = 0 THEN 0
    ELSE LET before == SumOnDate(rows, k - 1, d, role, idx)
             r == rows[k]
         IN  IF r.timestamp.date = d
             THEN float_add(before, IF role = "cons" THEN r.cons_wh[idx] ELSE r.prod_wh[idx])
             ELSE before

SummaryValue(s, role, idx) ==
    IF task = "E"
    THEN (IF role = "cons" THEN s.cons_kwh[idx] ELSE s.prod_kwh[idx])
    ELSE (IF role = "cons" THEN s.cons[idx] ELSE s.prod[idx])

Expected(wh) == IF task = "E" THEN [whole |-> wh \div 1000, milli |-> wh % 1000] ELSE wh

\* C2: every summary holds, for each of the six quantities, the sum over exactly
\* the records whose wall-clock date is the summary's date; every record belongs
\* to exactly one summary; a zone offset never moves a record to another date.
C2_SumsByWallClockDate ==
    Aggregated =>
        /\ \A n \in 1..Len(summaries) : \A role \in {"cons", "prod"} : \A idx \in 1..3 :
              SummaryValue(summaries[n], role, idx)
                 = Expected(SumOnDate(hour_rows, Len(hour_rows), summaries[n].day, role, idx))
        /\ \A k \in 1..Len(hour_rows) :
              Cardinality({ n \in 1..Len(summaries) :
                              summaries[n].day = hour_rows[k].timestamp.date }) = 1

C2_Witness ==
    /\ pc = "summarized"
    /\ Len(summaries) = 1
    /\ \E j, k \in 1..Len(hour_rows) :
          /\ hour_rows[j].timestamp.aware /\ hour_rows[j].timestamp.hour < hour_rows[j].timestamp.utcoff
          /\ ~hour_rows[k].timestamp.aware

\* C3: the summaries are in strictly ascending date order, whatever the input order.
C3_Ascending ==
    Aggregated =>
        \A n, m \in 1..Len(summaries) : n < m => DateLess(summaries[n].day, summaries[m].day)

C3_Witness ==
    /\ pc = "summarized"
    /\ Len(summaries) = 3
    /\ DateLess(hour_rows[3].timestamp.date, hour_rows[1].timestamp.date)

\* C4: aggregating any permutation of the records yields the same sequence of
\* summaries (same dates, same order, same per-phase totals).
C4_OrderIndependent ==
    pc = "reshuffled" => shuffled_summaries = summaries

\* The exact (unrounded) sum of one quantity over the records of date d.
RECURSIVE ExactSumOnDate(_, _, _, _, _)
ExactSumOnDate(rows, k, d, role, idx) ==
    IF k = 0 THEN 0
    ELSE ExactSumOnDate(rows, k - 1, d, role, idx)
         + (IF rows[k].timestamp.date # d THEN 0
            ELSE IF role = "cons" THEN rows[k].cons_wh[idx] ELSE rows[k].prod_wh[idx])

\* C4, amended: aggregating any permutation of the records yields the same dates
\* in the same order, and the same total for every quantity whose additions are
\* exact: whole-number values whose sum for the date stays below 2^Precision
\* (2^53 for binary64).  Other totals may differ by floating-point rounding.
C4_SameUpToRounding ==
    pc = "reshuffled" =>
        /\ Len(shuffled_summaries) = Len(summaries)
        /\ \A n \in 1..Len(summaries) :
              /\ shuffled_summaries[n].day = summaries[n].day
              /\ \A role \in {"cons", "prod"} : \A idx \in 1..3 :
                    ExactSumOnDate(hour_rows, Len(hour_rows), summaries[n].day, role, idx)
                        < Pow2(Precision)
                    => SummaryValue(shuffled_summaries[n], role, idx)
                         = SummaryValue(summaries[n], role, idx)

C4_Witness ==
    /\ pc = "reshuffled"
    /\ shuffled # hour_rows
    /\ Len(hour_rows) = 2
    /\ Len(summaries) = 1
    /\ ExactSumOnDate(hour_rows, 2, summaries[1].day, "cons", 1) < Pow2(Precision)
    /\ hour_rows[1].cons_wh[1] # hour_rows[2].cons_wh[1]

----------------------------------------------------------------------------
(* Claims about the timestamp parsers (checked under SpecTs) *)

\* C8: each timestamp parser either returns the date-time the text denotes or
\* fails with an error naming the unrecognized input; for a text that matches
\* no recognized pattern it never returns a date-time value.
C8_ParseOrFail ==
    pc = "parsed" =>
        /\ parsed.ok =>
              /\ text.form \notin {"garbage", "empty"}
              /\ parsed.value.date = text.date
              /\ parsed.value.hour = text.hour
        /\ ~parsed.ok => parsed.unrecognized = text

----------------------------------------------------------------------------
(* Claims about the column detector (checked under SpecDetect) *)

\* The first digit 1, 2 or 3 of a text, scanning left to right (0: none).
FirstPhaseDigit(nf) ==
    LET at == { n \in 1..Len(nf) : nf[n] \in {"1", "2", "3"} }
    IN  IF at = {} THEN 0
        ELSE LET n == CHOOSE m \in at : \A o \in at : m <= o
             IN  CASE nf[n] = "1" -> 1 [] nf[n] = "2" -> 2 [] nf[n] = "3" -> 3

\* C9: a consumption or production header is assigned the phase given by the
\* first digit 1, 2 or 3 of its normalized text, also when it holds several.
C9_FirstDigitIsPhase ==
    (pc = "detected" /\ detected.ok) =>
        /\ \A p \in DOMAIN detected.cons_cols :
              FirstPhaseDigit(normalize_header(detected.cons_cols[p])) = p
        /\ \A p \in DOMAIN detected.prod_cols :
              FirstPhaseDigit(normalize_header(detected.prod_cols[p])) = p

----------------------------------------------------------------------------
(* Claims about the Tabular Reader (checked under SpecRead) *)

\* C5: when Task E's read_data fails on a data row, the line number in its error
\* is the 1-based physical line of that row in the file, blank lines included.
C5_ErrorLineIsPhysicalLine ==
    (task = "E" /\ rd.pc = "raised" /\ rd.error.kind = "row") =>
        rd.error.line = rd.error.at

\* C6: Task D's read_data passes over at most one non-blank row (the header)
\* because its first cell is no timestamp; a further such row aborts the read.
C6_AtMostOneRowSkipped ==
    task = "D" => rd.skipped <= 1

HasLabel(fns, p, role) ==
    \E n \in 1..Len(fns) :
        LET nf == normalize_header(fns[n])
        IN  /\ phase_match(nf) = p
            /\ IF role = "cons" THEN IsConsumptionHeader(nf) ELSE IsProductionHeader(nf)

AllIdentified(f) ==
    /\ f.has_header
    /\ \E n \in 1..Len(f.fieldnames) : IsTimestampHeader(normalize_header(f.fieldnames[n]))
    /\ \A p \in 1..3 : HasLabel(f.fieldnames, p, "cons") /\ HasLabel(f.fieldnames, p, "prod")

Labels(f) == { f.fieldnames[n] : n \in 1..Len(f.fieldnames) }

\* C10: _detect_columns returns a mapping exactly when a timestamp header and a
\* header for each consumption and production phase 1-3 are identified, and the
\* mapping then has all three phases of both roles; otherwise it raises, and in
\* read_data that happens before any data row is parsed.
C10_MappingOrErrorBeforeRows ==
    (task = "E" /\ rd.pc # "header" /\ file.has_header) =>
        /\ rd.cols.ok <=> AllIdentified(file)
        /\ rd.cols.ok =>
              /\ DOMAIN rd.cols.cons_cols = 1..3
              /\ DOMAIN rd.cols.prod_cols = 1..3
              /\ rd.cols.timestamp_col \in Labels(file)
              /\ \A p \in 1..3 : rd.cols.cons_cols[p] \in Labels(file)
                                 /\ rd.cols.prod_cols[p] \in Labels(file)
        /\ ~rd.cols.ok =>
              /\ rd.pc = "raised"
              /\ rd.error.kind = "schema"
              /\ rd.rows = << >> /\ rd.pos = 0 /\ rd.i = 2

C10_Witness ==
    /\ task = "E"
    /\ rd.pc = "raised"
    /\ rd.error.kind = "schema"
    /\ rd.cols.missing_cons = {1}
    /\ Len(file.body) = 2
    /\ file.body[1] = GoodRow

----------------------------------------------------------------------------
(* Claims about the main programs (checked under SpecMain) *)

ReadsWell(t, path) ==
    /\ path.exists
    /\ (IF t = "E" THEN read_data_E(path.content) ELSE read_data_D(path.content)).pc = "returned"

\* C7: no partial report.  Task E writes the report only after all three input files
\* have been read and aggregated without error, and never once a read has raised;
\* Task D reaches print_report only after read_data has returned without error.
C7_NoPartialReport ==
    pc = "main" =>
        /\ mn.pc = "raised" => ~report.written
        /\ (task = "E" /\ report.written) =>
              /\ \A k \in 1..InputCount : ReadsWell("E", inputs[k])
              /\ Len(report.sections) = InputCount
              /\ mn.pc = "done"
        /\ (task = "D" /\ (report.written \/ mn.pc = "print_report")) =>
              ReadsWell("D", inputs[1])

C7_Witness ==
    /\ task = "E"
    /\ pc = "main"
    /\ mn.pc = "raised"
    /\ mn.k = InputCount
    /\ Len(mn.all_week_sections) = InputCount - 1
    /\ ~report.written

----------------------------------------------------------------------------
(* Claims about header spelling (checked under SpecRespell) *)

\* The roles and phases a detection gives to a label.
Slots(det, h) ==
    (IF det.ok /\ det.timestamp_col = h THEN {<<"timestamp", 0>>} ELSE {})
    \cup { <<"cons", p>> : p \in { q \in DOMAIN det.cons_cols : det.cons_cols[q] = h } }
    \cup { <<"prod", p>> : p \in { q \in DOMAIN det.prod_cols : det.prod_cols[q] = h } }

\* C11: two labels that differ only in letter case, whitespace, the punctuation
\* marks - [ ] ( ) _ and the unit "wh" are detected as the same role and phase.
C11_SpellingDrift ==
    (pc = "detected" /\ respelled.at # 0) =>
        /\ respelled_detected.ok = detected.ok
        /\ Slots(respelled_detected, respelled.fieldnames[respelled.at])
             = Slots(detected, fieldnames[respelled.at])

C11_Witness ==
    /\ pc = "detected"
    /\ respelled.at = 2
    /\ fieldnames[2] = L_Cons1
    /\ respelled.fieldnames[2] = L_ConsumptionPhase1
    /\ Slots(detected, L_Cons1) = {<<"cons", 1>>}
    /\ Slots(respelled_detected, L_ConsumptionPhase1) = {<<"cons", 1>>}

----------------------------------------------------------------------------
(* Claims about the forms of a timestamp (checked under SpecTs) *)

\* C12: parse_timestamp of Task D and of Task E accepts the combined date-and-time
\* form and each fallback form: date and time with seconds, date and time without
\* seconds, slash-separated date and time, and the date alone.
C12_AcceptsEveryForm ==
    (pc = "parsed" /\ task \in {"D", "E"} /\ text.zone = ""
       /\ text.form \in {"iso_T", "space_sec", "space_min", "slash_min", "date_only"}) =>
        /\ parsed.ok
        /\ parsed.value.date = text.date
        /\ parsed.value.hour = text.hour

----------------------------------------------------------------------------
(* Claims about the numeric normalizers (checked under SpecNum) *)

----------------------------------------------------------------------------
(* Claims about numeric fields in the Tabular Reader (checked under SpecRead) *)

\* The line read_data has just dealt with, and its fields.
LastLine == file.body[rd.pos].cells

TimeField ==
    IF task = "E" THEN CellOf(file.fieldnames, LastLine, rd.cols.timestamp_col)
    ELSE LastLine[1]

TimeParses ==
    IF task = "E" THEN parse_timestamp_E(TimeField).ok ELSE parse_timestamp_D(TimeField).ok

NumericField(role, p) ==
    IF task = "E"
    THEN CellOf(file.fieldnames, LastLine,
                IF role = "cons" THEN rd.cols.cons_cols[p] ELSE rd.cols.prod_cols[p])
    ELSE LET n == IF role = "cons" THEN 1 + p ELSE 4 + p
         IN  IF n <= Len(LastLine) THEN LastLine[n] ELSE NoText

\* A record line was dealt with: not the header step, not an empty line.
DealtWithRecord ==
    /\ task \in {"D", "E"}
    /\ rd.pos > 0
    /\ LastLine # << >>
    /\ task = "E" => rd.cols.ok
    /\ TimeParses

Blank(t) == t.form \in {"empty", "none"}

Denoted(t) == IF Blank(t) THEN 0 ELSE t.value

LastRow == rd.rows[Len(rd.rows)]

RecordKept ==
    /\ rd.pc # "raised"
    /\ rd.rows # << >>
    /\ Len(LastRow.cons_wh) = 3 /\ Len(LastRow.prod_wh) = 3
    /\ \A p \in 1..3 : /\ LastRow.cons_wh[p] = Denoted(NumericField("cons", p))
                       /\ LastRow.prod_wh[p] = Denoted(NumericField("prod", p))

\* C14: every record of read_data (Task D and Task E) has three consumption and
\* three production values, and an empty, whitespace-only or missing numeric
\* field contributes zero and never raises.
C14_BlankIsZero ==
    (DealtWithRecord
       /\ \A role \in {"cons", "prod"} : \A p \in 1..3 :
             NumericField(role, p).form \in {"int", "empty", "none"}) =>
        RecordKept

\* C14, amended: as above for empty and whitespace-only fields, and for missing
\* fields in Task E; Task D raises on a row of fewer than seven cells.
C14_BlankIsZeroShortRowFatalInD ==
    /\ (DealtWithRecord
          /\ (task = "D" => Len(LastLine) >= 7)
          /\ \A role \in {"cons", "prod"} : \A p \in 1..3 :
                NumericField(role, p).form \in {"int", "empty", "none"}) =>
           RecordKept
    /\ (DealtWithRecord /\ task = "D" /\ Len(LastLine) < 7) =>
           (rd.pc = "raised" /\ rd.error.kind = "columns")

C14_Witness ==
    /\ task = "E"
    /\ rd.pos = 2
    /\ file.body[1] = LateRow
    /\ file.body[2] = ShortRow
    /\ Len(rd.rows) = 2
    /\ rd.rows[1].cons_wh = <<2, 1, 0>>
    /\ rd.rows[2].cons_wh = <<1, 2, 0>>
    /\ rd.rows[2].prod_wh = <<0, 0, 0>>

----------------------------------------------------------------------------
(* Claims about fields that are no numbers (checked under SpecRead) *)

\* The numeric fields of the line read_data has just dealt with.
NumericFields ==
    IF task = "F"
    THEN { NormGet(file, LastLine, K_consumption_net_kwh, Number(0)),
           NormGet(file, LastLine, K_production_net_kwh, Number(0)),
           NormGet(file, LastLine, K_daily_average_temperature, Number(0)) }
    ELSE { NumericField(role, p) : role \in {"cons", "prod"}, p \in 1..3 }

\* Text that is not empty and that float() does not take.
NotANumber(t) == t.form = "garbage"

\* What Task F stored for the field under a key.
Stored(key, value) ==
    NotANumber(NormGet(file, LastLine, key, Number(0))) => value = 0

\* C15: in a record of Task D or Task E (a line whose timestamp field parses), a
\* numeric field that is not empty and is no number makes read_data raise, so
\* that no rows are returned; in Task F such a field is stored as 0 and the
\* measurement of its line is kept.
C15_StrictRaisesLenientZero ==
    /\ (DealtWithRecord /\ \E t \in NumericFields : NotANumber(t)) =>
           (rd.pc = "raised" /\ rd.error.kind \in {"row", "number", "columns"})
    /\ (task = "F" /\ rd.pos > 0 /\ LastLine # << >>) =>
           /\ rd.pc # "raised"
           /\ rd.rows # << >>
           /\ Stored(K_consumption_net_kwh, LastRow.consumption)
           /\ Stored(K_production_net_kwh, LastRow.production)
           /\ Stored(K_daily_average_temperature, LastRow.temperature)

\* C15 (witness): Task F has kept the measurement of a line whose consumption
\* is no number, with 0 for it, after a measurement of 1,50.
C15_Witness ==
    /\ task = "F"
    /\ rd.pos = 2
    /\ file.fieldnames = NetHeader
    /\ file.body[1] = MeasurementLine
    /\ file.body[2] = BadMeasurementLine
    /\ Len(rd.rows) = 2
    /\ rd.rows[1].consumption = [whole |-> 1, cents |-> 50]
    /\ rd.rows[2].consumption = 0
    /\ rd.rows[2].production = 1

\* C15 (witness, strict paths): Task E has raised on the second record, whose
\* second consumption is no number, and returns nothing.
C15_WitnessStrict ==
    /\ task = "E"
    /\ rd.pc = "raised"
    /\ rd.pos = 2
    /\ file.body[1] = GoodRow
    /\ file.body[2] = BadNumberRow
    /\ Len(rd.rows) = 1

----------------------------------------------------------------------------
(* Claims about the delimiter (checked under SpecSniff) *)

Count(c) == CASE c = "," -> sample.comma [] c = ";" -> sample.semicolon [] c = "\t" -> sample.tab

\* C16: when sniffing raises, the delimiter read_data (Task D and Task E)
\* chooses is the candidate among ",", ";" and tab that occurs most often in
\* the sample, whenever one candidate occurs more often than the two others.
C16_FallbackIsMostFrequent ==
    (pc = "reader" /\ sniffed = "csv.Error") =>
        \A c \in {",", ";", "\t"} :
            (\A o \in {",", ";", "\t"} \ {c} : Count(c) > Count(o)) => delimiter = c

----------------------------------------------------------------------------
(* Claims about input files that are missing (checked under SpecMain) *)

\* main has opened, or tried to open, input k.
Tried(k) ==
    CASE task = "E" -> mn.k > k \/ (mn.k = k /\ mn.pc = "raised")
      [] task = "A" -> mn.pc # "exists"
      [] OTHER -> mn.pc # "read_data"

\* The run has ended with a failure about input k.
FailedOn(k) ==
    /\ mn.pc \in {"raised", "exit_1"}
    /\ mn.k = k
    /\ mn.error \in {"FileNotFoundError", "File not found"}

\* C17: an input file that is missing is fatal in Task A, Task D, Task E and
\* Task F: once main has tried to open it, the run has ended with a failure
\* that names the file (exit status 1 in Task A, an exception in Task D and
\* Task E), no report is produced, and Task F is not at its menus.
C17_MissingFileIsFatal ==
    pc = "main" =>
        \A k \in DOMAIN inputs :
            (~inputs[k].exists /\ Tried(k)) => (FailedOn(k) /\ ~report.written)

----------------------------------------------------------------------------
(* Claims about the overall totals of Task E (checked under SpecMain) *)

\* The hourly records of input k, as read_data returns them.
RowsOf(k) == read_data_E(inputs[k].content).rows

KwhOf(ds, role, i) == IF role = "cons" THEN ds.cons_kwh[i] ELSE ds.prod_kwh[i]

\* The float sum of one quantity over the days of the sections 1..k, in the
\* order of the report, starting from 0.0.
RECURSIVE SumOfDays(_, _, _, _)
SumOfDays(sections, k, role, i) ==
    LET RECURSIVE Days(_, _)
        Days(acc, n) ==
            IF n > Len(sections[k].days) THEN acc
            ELSE Days(kwh_add(acc, KwhOf(sections[k].days[n], role, i)), n + 1)
    IN  IF k = 0 THEN ZeroKwh ELSE Days(SumOfDays(sections, k - 1, role, i), 1)

\* The exact sum, in Wh, of one quantity over the hourly records of inputs 1..k.
RECURSIVE ExactWh(_, _, _)
ExactWh(k, role, i) ==
    LET rows == RowsOf(k)
        RECURSIVE Rows(_)
        Rows(n) ==
            IF n = 0 THEN 0
            ELSE Rows(n - 1) + (IF role = "cons" THEN rows[n].cons_wh[i] ELSE rows[n].prod_wh[i])
    IN  IF k = 0 THEN 0 ELSE ExactWh(k - 1, role, i) + Rows(Len(rows))

TotalOf(role, i) == IF role = "cons" THEN report.total_cons[i] ELSE report.total_prod[i]

ReportWrittenE == task = "E" /\ pc = "main" /\ report.written

\* C18: the overall totals Task E writes equal, for each of the six quantities,
\* the sum of all hourly Wh values of all input files divided by 1000.
C18_TotalsAreExactSums ==
    ReportWrittenE =>
        \A role \in {"cons", "prod"} : \A i \in 1..3 :
            TotalOf(role, i) = kwh_from_wh(ExactWh(InputCount, role, i))

\* C18, amended: each section holds the DaySummary values of one input file, in
\* the order of the files; every overall total is the float sum of the
\* corresponding DaySummary values of all sections in that order; and it is
\* the sum of all hourly Wh values divided by 1000 where no addition rounds
\* (here: where the exact sum has no more than Precision bits).
C18_TotalsAreFloatSumsOfDaySummaries ==
    ReportWrittenE =>
        /\ Len(report.sections) = InputCount
        /\ \A k \in 1..InputCount : report.sections[k].days = summarize_days(RowsOf(k))
        /\ \A role \in {"cons", "prod"} : \A i \in 1..3 :
              /\ TotalOf(role, i) = SumOfDays(report.sections, InputCount, role, i)
              /\ ExactWh(InputCount, role, i) < Pow2(Precision) =>
                    TotalOf(role, i) = kwh_from_wh(ExactWh(InputCount, role, i))

\* C18 (witness): the report of three files of two days each is written; the
\* first production phase, 1 Wh per file, totals 0.003 kWh.
C18_Witness ==
    /\ ReportWrittenE
    /\ \A k \in 1..InputCount : inputs[k].content = WeekFile
    /\ \A k \in 1..InputCount : Len(report.sections[k].days) = 2
    /\ report.total_prod[1] = [whole |-> 0, milli |-> 3]

----------------------------------------------------------------------------
(* Claims about rendered dates (checked under SpecFmt) *)

IsDigit(c) == \E n \in 1..Len(DigitChars) : DigitChars[n] = c

\* The number a run of digits spells.
RECURSIVE NumberOf(_)
NumberOf(r) ==
    IF r = << >> THEN 0
    ELSE 10 * NumberOf(SubSeq(r, 1, Len(r) - 1))
         + ((CHOOSE n \in 1..Len(DigitChars) : DigitChars[n] = r[Len(r)]) - 1)

Dots(r) == { n \in 1..Len(r) : r[n] = "." }

\* day.month.year: digits around exactly two dots, no part empty.
IsDottedDate(r) ==
    /\ Cardinality(Dots(r)) = 2
    /\ \A n \in 1..Len(r) : r[n] = "." \/ IsDigit(r[n])
    /\ \A n \in Dots(r) : n > 1 /\ n < Len(r) /\ n + 1 \notin Dots(r)

\* The date a day.month.year text denotes.
DateDenoted(r) ==
    LET p == CHOOSE n \in Dots(r) : \A o \in Dots(r) : n <= o
        q == CHOOSE n \in Dots(r) : \A o \in Dots(r) : n >= o
    IN  Date(NumberOf(SubSeq(r, q + 1, Len(r))), NumberOf(SubSeq(r, p + 1, q - 1)),
             NumberOf(SubSeq(r, 1, p - 1)))

\* dd.mm.yyyy: two digits, a dot, two digits, a dot and the year.
IsDdMmYyyy(r) == IsDottedDate(r) /\ Dots(r) = {3, 6} /\ Len(r) = 10

----------------------------------------------------------------------------
(* Claims about rendered quantities (checked under SpecFmt) *)

\* Digits, a comma and exactly two digits; no dot.
HasTwoDecimalsAfterComma(r) ==
    /\ Len(r) >= 4
    /\ r[Len(r) - 2] = ","
    /\ \A n \in 1..Len(r) : n # Len(r) - 2 => IsDigit(r[n])

\* The kWh value handed to the formatter, in thousandths.
Thousandths ==
    IF quantity.unit = "Wh" THEN quantity.whole ELSE quantity.whole * 1000 + quantity.milli

\* The value the rendered text denotes, in thousandths.
RenderedThousandths ==
    10 * (100 * NumberOf(SubSeq(rendered, 1, Len(rendered) - 3))
          + NumberOf(SubSeq(rendered, Len(rendered) - 1, Len(rendered))))

C20_WitnessE ==
    /\ task = "E"
    /\ pc = "quantity rendered"
    /\ \/ quantity = Quantity("kWh", 24, 0) /\ rendered = <<"2", "4", ",", "0", "0">>
       \/ quantity = Quantity("kWh", 9, 995) /\ rendered = <<"1", "0", ",", "0", "0">>

----------------------------------------------------------------------------
(* Claims about the mapping of the column detector (checked under SpecDetect) *)

\* The seven logical fields of a mapping and the header each is mapped to.
MappedHeader(det, slot) ==
    CASE slot[1] = "timestamp" -> det.timestamp_col
      [] slot[1] = "cons" -> det.cons_cols[slot[2]]
      [] slot[1] = "prod" -> det.prod_cols[slot[2]]

LogicalFields ==
    {<<"timestamp", 0>>} \cup { <<role, p>> : role \in {"cons", "prod"}, p \in 1..3 }

\* C25: in every mapping _detect_columns returns, the seven mapped headers are
\* pairwise distinct.
C25_MappedHeadersDistinct ==
    (pc = "detected" /\ detected.ok) =>
        \A a \in LogicalFields : \A b \in LogicalFields :
            a # b => MappedHeader(detected, a) # MappedHeader(detected, b)

----------------------------------------------------------------------------
(* Claims about the week number of a section (checked under SpecMain) *)

\* The earliest date listed in a section.
EarliestDay(days) ==
    (CHOOSE n \in 1..Len(days) :
        \A o \in 1..Len(days) : days[n].day = days[o].day \/ DateLess(days[n].day, days[o].day))

\* C26: the week number in the title of a section is the ISO week of the
\* earliest date listed in the section, in Task E as in Task D, whatever the
\* order of the rows in the file.
C26_WeekOfEarliestDate ==
    (pc = "main" /\ task \in {"D", "E"} /\ report.written) =>
        \A k \in 1..Len(report.sections) :
            LET days == report.sections[k].days
            IN  days # << >> =>
                  report.sections[k].week_no = IsoWeek(days[EarliestDay(days)].day)

----------------------------------------------------------------------------
(* Claims about the menus and the reports of Task F (checked under SpecMain) *)

InMainMenu == task = "F" /\ pc = "main" /\ mn.pc = "show_main_menu"

InPostMenu == task = "F" /\ pc = "main" /\ mn.pc = "show_post_menu"

\* C27: in the menu loop of Task F, report.txt is written only by choice 1 of
\* the menu under a report, and then holds the lines of the report made last;
\* a choice that neither menu offers changes neither the report nor the file
\* and leaves the program in the menu it was in; choice 4 of the main menu and
\* choice 3 of the menu under a report end the program.
C27_MenuLoop ==
    [][ /\ (report_txt' # report_txt) => (InPostMenu /\ choice' = "1")
        /\ (InPostMenu /\ choice' = "1") =>
              (report.written /\ report_txt' = report /\ UNCHANGED <<mn, report>>)
        /\ (InMainMenu /\ choice' \notin {"1", "2", "3", "4"}) => UNCHANGED <<mn, report, report_txt>>
        /\ (InPostMenu /\ choice' \notin {"1", "2", "3"}) => UNCHANGED <<mn, report, report_txt>>
        /\ (InMainMenu /\ choice' = "4") => mn'.pc = "done"
        /\ (InPostMenu /\ choice' = "3") => mn'.pc = "done"
      ]_vars

\* A report made from measurements has been saved, the user has gone back to
\* the main menu, and the report made there is another one: report.txt still
\* holds the saved one.
C27_Witness ==
    /\ InPostMenu
    /\ report_txt.written
    /\ report_txt.total_cons[1] > 0
    /\ report_txt # report

\* The measurements whose date is one of the days from lo to hi.
OnDaysFrom(rows, lo, hi) ==
    SelectSeq(rows, LAMBDA m : Ordinal(DateOf(m.dt)) \in Ordinal(lo)..Ordinal(hi))

Earlier(a, b) == IF Ordinal(a) <= Ordinal(b) THEN a ELSE b

Later(a, b) == IF Ordinal(a) <= Ordinal(b) THEN b ELSE a

\* The totals of a report are those of the given measurements.
Totals(r, rows) ==
    /\ r.total_cons = << sum(Consumptions(rows)) >>
    /\ r.total_prod = << sum(Productions(rows)) >>

\* C23: the report of a period totals exactly the measurements whose date d
\* satisfies start <= d <= end, both ends included; dates entered the later
\* one first are swapped, so both orders of entry give the same report.
C23_InclusivePeriod ==
    (task = "F" /\ pc = "main" /\ mn.pc # "read_data") =>
        /\ \A a \in ReportDates : \A b \in ReportDates :
              /\ Totals(create_daily_report(mn.rows, a, b),
                        OnDaysFrom(mn.rows, Earlier(a, b), Later(a, b)))
              /\ create_daily_report(mn.rows, a, b) = create_daily_report(mn.rows, b, a)
        /\ (report.written /\ report.sections[1].kind = "period") =>
              Totals(report, OnDaysFrom(mn.rows, report.sections[1].start, report.sections[1].end))

\* A report of 30.9.2025 to 13.10.2025 is on screen; the data holds a
\* measurement of each of the two days and one of the day after, whose
\* production is not in the total.
C23_Witness ==
    /\ InPostMenu
    /\ report.sections[1].kind = "period"
    /\ report.sections[1].start = Date(2025, 9, 30)
    /\ report.sections[1].end = Date(2025, 10, 13)
    /\ \A d \in ReportDates : \E n \in 1..Len(mn.rows) : DateOf(mn.rows[n].dt) = d
    /\ report.total_cons[1] > 0
    /\ report.total_prod[1] > 0
    /\ report.total_prod # << sum(Productions(mn.rows)) >>

----------------------------------------------------------------------------
(* Claims about the reservation programs of Task C and Task G (checked under
   SpecRes) *)

\* Program n has printed the section with that title number.
HasPrinted(n, section) == \E k \in 1..Len(programs[n].output) : programs[n].output[k] = Title(section)

\* The lines program n printed of the given kinds.
PrintedOf(n, kinds) == SelectSeq(programs[n].output, LAMBDA l : l.kind \in kinds)

\* The lines of the file that hold a reservation: neither a header nor empty.
ReservationsIn(lines) ==
    SelectSeq(lines, LAMBDA l : ~ContainsReservationId(l) /\ ~IsEmptyString(StripLine(l)))

\* C21: in each of the three programs the two counts that confirmation_summary
\* prints add up to the number of reservations read, and a header line is not
\* among the reservations.
C21_CountsAddUp ==
    (task = "C, G" /\ pc = "main") =>
        \A n \in 1..Len(Programs) :
            HasPrinted(n, 4) =>
                LET counts == PrintedOf(n, {"Confirmed reservations", "Not confirmed reservations"})
                IN  /\ counts[1].numbers[1] + counts[2].numbers[1] = Len(programs[n].reservations)
                    /\ Len(programs[n].reservations) = Len(ReservationsIn(reservations_txt))

\* The lines long_reservations prints for the reservations of three hours or
\* more.
AtLeastThreeHours(reservations) ==
    LET long == SelectSeq(reservations, LAMBDA r : r.durationHours >= 3)
    IN  [k \in 1..Len(long) |->
            Printed("long", <<long[k].name, long[k].reservedResource>>,
                    <<long[k].reservationDate>>, <<long[k].reservationTime, long[k].durationHours>>)]

\* C22: where a program of Task G has the same reservations as that of Task C,
\* its long_reservations prints the same lines: those of the reservations of
\* at least 3 hours.
C22_SameLongReservations ==
    (task = "C, G" /\ pc = "main") =>
        \A n \in 2..Len(Programs) :
            (/\ HasPrinted(1, 2) /\ HasPrinted(n, 2)
             /\ programs[n].reservations = programs[1].reservations) =>
                /\ PrintedOf(n, {"long"}) = PrintedOf(1, {"long"})
                /\ PrintedOf(n, {"long"}) = AtLeastThreeHours(programs[n].reservations)

\* The lines of the file that Task G is to convert: all but the empty ones,
\* and but the first where it contains "reservationId".
LinesToConvert(lines) ==
    IF lines # << >> /\ ContainsReservationId(lines[1])
    THEN SelectSeq(Tail(lines), LAMBDA l : ~IsEmptyString(StripLine(l)))
    ELSE SubSeq(lines, 1, 1) \o
         SelectSeq(SubSeq(lines, 2, Len(lines)), LAMBDA l : ~IsEmptyString(StripLine(l)))

\* C24: on the same file the class-based and the dict-based program of Task G
\* print the same lines (none where fetch_reservations raises, which it does
\* in both or in neither), and both skip the first line exactly when it
\* contains "reservationId".
C24_ClassAndDictAgree ==
    (task = "C, G" /\ pc = "main" /\ running > Len(Programs)) =>
        /\ programs[2].output = programs[3].output
        /\ programs[2].pc = programs[3].pc
        /\ programs[2].reservations = programs[3].reservations
        /\ \A n \in 2..3 :
              programs[n].pc = "done" =>
                  LET lines == LinesToConvert(reservations_txt)
                  IN  [k \in 1..Len(programs[n].reservations) |->
                          programs[n].reservations[k].reservationId]
                      = [k \in 1..Len(lines) |-> lines[k].fields[1].value]

\* Both programs of Task G have printed their five sections from a file that
\* starts with the header and holds a reservation after white space; the last
\* line has no newline.
C24_Witness ==
    /\ task = "C, G" /\ running > Len(Programs)
    /\ programs[2].pc = "done" /\ programs[3].pc = "done"
    /\ Len(reservations_txt) > 1
    /\ ContainsReservationId(reservations_txt[1])
    /\ \E k \in 1..Len(reservations_txt) : reservations_txt[k].lead
    /\ ~reservations_txt[Len(reservations_txt)].newline
    /\ Len(programs[2].reservations) = Len(reservations_txt) - 1

=============================================================================
